---- MODULE Spec2Model ----
(***************************************************************************)
(* A model of the calculator plugins of entity-plugin-examples:            *)
(*   tools/calculator/basic_calculator.py       (BasicCalculatorPlugin)    *)
(*   tools/calculator/expression_evaluator.py   (ExpressionEvaluatorPlugin)*)
(*   tools/calculator/scientific_calculator.py  (ScientificCalculatorPlugin)*)
(*                                                                         *)
(* Text that the code indexes or scans (the incoming message, the cleaned  *)
(* expression) is a sequence of one-character strings.  A string that the  *)
(* code builds and returns is the sequence of the pieces its f-string or   *)
(* literal is made of, <<"Result: ", "14.0">> for f"Result: {result}":     *)
(* the Python string is their concatenation, Flat.                         *)
(*                                                                         *)
(* A Python float is modelled as an exact extended rational <<n, d>>:      *)
(* d > 0 and gcd(n, d) = 1 for a finite value, <<1, 0>> for inf,           *)
(* <<-1, 0>> for -inf, <<0, 0>> for nan and <<0, -1>> for -0.0.  Binary    *)
(* rounding is not modelled.                                               *)
(***************************************************************************)
EXTENDS Integers, Sequences, FiniteSets, TLC

(***************************************************************************)
(* Bounds of the model.                                                    *)
(***************************************************************************)
\* Generated well-formed expressions hold at most MaxOps operators.
MaxOps == 2
\* Every string over Alphabet of at most MaxLen characters is an input.
MaxLen == 3
\* An evaluator instance serves at most MaxCalls calls.
MaxCalls == 4
\* A scripted sequence of evaluations records at most MaxEvaluations entries.
MaxEvaluations == 60

(***************************************************************************)
(* Characters and text helpers.                                            *)
(***************************************************************************)
DigitChars == <<"0", "1", "2", "3", "4", "5", "6", "7", "8", "9">>

Digits == {DigitChars[i] : i \in 1..10}

\* str.isdigit() on the characters that pass the whitelist.
IsDigit(c) == c \in Digits

DigitVal(c) == (CHOOSE i \in 1..10 : DigitChars[i] = c) - 1

\* The characters re's \s matches, among those of the model.
Whitespace == {" ", "\t"}

RECURSIVE Join(_)
\* ''.join(chars): a character sequence as one string.
Join(cs) ==
    IF cs = <<>> THEN ""
    ELSE IF Len(cs) = 1 THEN cs[1]
    ELSE Join(SubSeq(cs, 1, Len(cs) \div 2))
         \o Join(SubSeq(cs, (Len(cs) \div 2) + 1, Len(cs)))

RECURSIVE Flat(_)
\* The string a sequence of pieces stands for.
Flat(pieces) ==
    IF pieces = <<>> THEN ""
    ELSE IF Len(pieces) = 1 THEN pieces[1]
    ELSE Flat(SubSeq(pieces, 1, Len(pieces) \div 2))
         \o Flat(SubSeq(pieces, (Len(pieces) \div 2) + 1, Len(pieces)))

RECURSIVE NatStr(_)
NatStr(n) == IF n < 10 THEN DigitChars[n + 1]
             ELSE NatStr(n \div 10) \o DigitChars[(n % 10) + 1]

\* str(n) of a Python int.
IntStr(n) == IF n < 0 THEN "-" \o NatStr(-n) ELSE NatStr(n)

RECURSIVE NatChars(_)
\* The characters of str(n).
NatChars(n) ==
    IF n < 10 THEN <<DigitChars[n + 1]>>
    ELSE Append(NatChars(n \div 10), DigitChars[(n % 10) + 1])

\* The characters of str(n) of a Python int.
IntChars(n) == IF n < 0 THEN <<"-">> \o NatChars(-n) ELSE NatChars(n)

(***************************************************************************)
(* Python float arithmetic on extended rationals.                          *)
(***************************************************************************)
Abs(n) == IF n < 0 THEN -n ELSE n

RECURSIVE Gcd(_, _)
Gcd(a, b) == IF b = 0 THEN a ELSE Gcd(b, a % b)

Inf == <<1, 0>>
NegInf == <<-1, 0>>
NaN == <<0, 0>>
Zero == <<0, 1>>
NegZero == <<0, -1>>

IsNaN(x) == x = NaN
IsInf(x) == x[2] = 0 /\ x[1] # 0
IsFinite(x) == x[2] # 0
\* x == 0 in Python: true of 0.0 and of -0.0.
IsZero(x) == x[1] = 0 /\ x[2] # 0

\* The sign bit of a float that is not nan.
SignBit(x) == x[1] < 0 \/ x = NegZero

SignedZero(neg) == IF neg THEN NegZero ELSE Zero
SignedInf(neg) == IF neg THEN NegInf ELSE Inf

\* The float n/d, d # 0, in lowest terms with a positive denominator.
Rat(n, d) == LET g == Gcd(Abs(n), Abs(d))
                 s == IF d < 0 THEN -1 ELSE 1
             IN  <<s * (n \div g), s * (d \div g)>>

\* float(n) of a Python int.
FloatOfInt(n) == <<n, 1>>

\* -x
FNeg(x) == IF IsZero(x) THEN SignedZero(~SignBit(x)) ELSE <<-x[1], x[2]>>

\* x + y
FAdd(x, y) ==
    IF IsNaN(x) \/ IsNaN(y) THEN NaN
    ELSE IF IsInf(x) THEN (IF IsInf(y) /\ y # x THEN NaN ELSE x)
    ELSE IF IsInf(y) THEN y
    ELSE IF IsZero(x) /\ IsZero(y) THEN SignedZero(SignBit(x) /\ SignBit(y))
    ELSE Rat(x[1] * Abs(y[2]) + y[1] * Abs(x[2]), Abs(x[2]) * Abs(y[2]))

\* x - y
FSub(x, y) == FAdd(x, FNeg(y))

\* x * y
FMul(x, y) ==
    LET neg == SignBit(x) # SignBit(y)
    IN  IF IsNaN(x) \/ IsNaN(y) THEN NaN
        ELSE IF IsInf(x) \/ IsInf(y)
             THEN (IF IsZero(x) \/ IsZero(y) THEN NaN ELSE SignedInf(neg))
        ELSE IF IsZero(x) \/ IsZero(y) THEN SignedZero(neg)
        ELSE Rat(x[1] * y[1], x[2] * y[2])

\* x / y for a float y with y != 0.
FTrueDiv(x, y) ==
    LET neg == SignBit(x) # SignBit(y)
    IN  IF IsNaN(x) \/ IsNaN(y) THEN NaN
        ELSE IF IsInf(y) THEN (IF IsInf(x) THEN NaN ELSE SignedZero(neg))
        ELSE IF IsInf(x) THEN SignedInf(neg)
        ELSE IF IsZero(x) THEN SignedZero(neg)
        ELSE Rat(x[1] * y[2], x[2] * y[1])

RECURSIVE FracDigits(_, _, _)
\* The decimal digits of r/d, 0 <= r < d, at most k of them.
FracDigits(r, d, k) ==
    IF r = 0 \/ k = 0 THEN ""
    ELSE DigitChars[((r * 10) \div d) + 1] \o FracDigits((r * 10) % d, d, k - 1)

\* repr(x) of a float in positional notation (what str() and an f-string
\* give).  Exact for inf, nan and terminating decimals; an expansion that
\* does not terminate is cut after 16 digits.
FloatStr(x) ==
    IF IsNaN(x) THEN "nan"
    ELSE IF x = Inf THEN "inf"
    ELSE IF x = NegInf THEN "-inf"
    ELSE IF IsZero(x) THEN (IF SignBit(x) THEN "-0.0" ELSE "0.0")
    ELSE LET a == Abs(x[1])
             ip == a \div x[2]
             r == a % x[2]
         IN  (IF x[1] < 0 THEN "-" ELSE "") \o NatStr(ip) \o "." \o
             (IF r = 0 THEN "0" ELSE FracDigits(r, x[2], 16))

RECURSIVE FracChars(_, _, _)
\* The characters of the decimal digits of r/d, 0 <= r < d, at most k of them.
FracChars(r, d, k) ==
    IF r = 0 \/ k = 0 THEN <<>>
    ELSE <<DigitChars[((r * 10) \div d) + 1]>> \o FracChars((r * 10) % d, d, k - 1)

\* The characters of FloatStr(x).
FloatChars(x) ==
    IF IsNaN(x) THEN <<"n", "a", "n">>
    ELSE IF x = Inf THEN <<"i", "n", "f">>
    ELSE IF x = NegInf THEN <<"-", "i", "n", "f">>
    ELSE IF IsZero(x) THEN (IF SignBit(x) THEN <<"-", "0", ".", "0">>
                            ELSE <<"0", ".", "0">>)
    ELSE (IF x[1] < 0 THEN <<"-">> ELSE <<>>) \o NatChars(Abs(x[1]) \div x[2])
         \o <<".">> \o (IF Abs(x[1]) % x[2] = 0 THEN <<"0">>
                        ELSE FracChars(Abs(x[1]) % x[2], x[2], 16))

(***************************************************************************)
(* BasicCalculatorPlugin: the recursive-descent parser.                    *)
(* A parse step returns [ok, val, pos, err, trail]: the value and the      *)
(* cursor after it, or the ValueError raised and the cursor where it was   *)
(* raised, and in trail what the step did to the cursor, in order: the     *)
(* rules entered and the loop iterations begun (with the cursor at that    *)
(* moment) and every assignment to self.pos (with the value assigned).     *)
(***************************************************************************)
Ok(v, p) == [ok |-> TRUE, val |-> v, pos |-> p, err |-> "", trail |-> <<>>]

Raise(msg, p) == [ok |-> FALSE, val |-> NaN, pos |-> p, err |-> msg, trail |-> <<>>]

\* A rule entered or a loop iteration begun with the cursor at p.
Enter(rule, p) == [ev |-> "enter", rule |-> rule, pos |-> p]

Iterate(rule, p) == [ev |-> "loop", rule |-> rule, pos |-> p]

\* self.pos = 0
Reset == [ev |-> "set", rule |-> "evaluate", pos |-> 0]

\* self.pos += 1, p being the new value.
Advance(rule, p) == [ev |-> "advance", rule |-> rule, pos |-> p]

\* The step r after the events before.
Following(before, r) == [r EXCEPT !.trail = before \o @]

\* self.expr[self.pos], the cursor counting from 0.
At(e, p) == e[p + 1]

\* The '/' entry with IEEE-754 division (signed infinities, 0/0 = nan).
DivideIEEE(x, y) ==
    IF IsZero(y)
    THEN (IF IsNaN(x) \/ IsZero(x) THEN NaN ELSE SignedInf(SignBit(x) # SignBit(y)))
    ELSE FTrueDiv(x, y)

\* The '/' entry of self.operations: x / y if y != 0 else float('inf').
Divide(x, y) == IF IsZero(y) THEN Inf ELSE FTrueDiv(x, y)

\* self.operations[op](x, y).
Operations(op, x, y) ==
    CASE op = "+" -> FAdd(x, y)
      [] op = "-" -> FSub(x, y)
      [] op = "*" -> FMul(x, y)
      [] op = "/" -> Divide(x, y)

\* The loop condition of _parse_expression: ... in '+-'.
IsAddOp(c) == c \in {"+", "-"}

\* A term loop that also takes '+', so that '+' binds like '*'.
IsMulOpFlat(c) == c \in {"*", "/", "+"}

\* The loop condition of _parse_term: ... in '*/'.
IsMulOp(c) == c \in {"*", "/"}

RECURSIVE ScanDigits(_, _)
\* while self.pos < len(self.expr) and self.expr[self.pos].isdigit()
ScanDigits(e, p) ==
    IF p < Len(e) /\ IsDigit(At(e, p)) THEN ScanDigits(e, p + 1) ELSE p

RECURSIVE DigitsValue(_)
\* The integer a sequence of digits spells (0 for none).
DigitsValue(cs) ==
    IF cs = <<>> THEN 0
    ELSE 10 * DigitsValue(SubSeq(cs, 1, Len(cs) - 1)) + DigitVal(cs[Len(cs)])

RECURSIVE Pow10(_)
Pow10(k) == IF k = 0 THEN 1 ELSE 10 * Pow10(k - 1)

\* float(text) for text of digits with at most one '.': [ok, val], not ok
\* when text holds no digit (float('.') raises ValueError).
ToFloat(text) ==
    LET ds == SelectSeq(text, IsDigit)
        dot == IF \E i \in 1..Len(text) : text[i] = "."
               THEN CHOOSE i \in 1..Len(text) : text[i] = "."
               ELSE Len(text) + 1
        nfrac == IF dot > Len(text) THEN 0 ELSE Len(text) - dot
    IN  IF ds = <<>> THEN [ok |-> FALSE, val |-> NaN]
        ELSE [ok |-> TRUE, val |-> Rat(DigitsValue(ds), Pow10(nfrac))]

\* _parse_number
ParseNumber(e, start) ==
    LET Fraction(p1) == IF p1 < Len(e) /\ At(e, p1) = "." THEN ScanDigits(e, p1 + 1)
                        ELSE p1
        Convert(text, f, p2) ==
            IF start = p2 THEN Raise("Expected number", p2)
            ELSE IF ~f.ok
                 THEN Raise("could not convert string to float: '" \o Join(text) \o "'", p2)
                 ELSE Ok(f.val, p2)
        Number(p2) ==
            Following(<<Enter("number", start)>>
                      \o [i \in 1..(p2 - start) |-> Advance("number", start + i)],
                      Convert(SubSeq(e, start + 1, p2), ToFloat(SubSeq(e, start + 1, p2)), p2))
    IN  Number(Fraction(ScanDigits(e, start)))

RECURSIVE ParseExpression(_, _)
RECURSIVE ExpressionLoop(_, _, _)
RECURSIVE ParseTerm(_, _)
RECURSIVE TermLoop(_, _, _)
RECURSIVE ParseFactor(_, _)

\* A factor rule that steps over the character after a parenthesised
\* expression without looking at it.
ParseFactorLenient(e, p) ==
    LET Entered(r) == Following(<<Enter("factor", p)>>, r)
        Stepped(r) == Following(<<Enter("factor", p), Advance("factor", p + 1)>>, r)
    IN  IF p >= Len(e) THEN Entered(Raise("Unexpected end of expression", p))
        ELSE IF At(e, p) = "-"
             THEN LET Negate(r) == IF r.ok THEN Following(r.trail, Ok(FNeg(r.val), r.pos))
                                   ELSE r
                  IN  Stepped(Negate(ParseFactor(e, p + 1)))
        ELSE IF At(e, p) = "+" THEN Stepped(ParseFactor(e, p + 1))
        ELSE IF At(e, p) = "("
             THEN LET Close(r) ==
                          IF ~r.ok THEN r
                          ELSE Following(Append(r.trail, Advance("factor", r.pos + 1)),
                                         Ok(r.val, r.pos + 1))
                  IN  Stepped(Close(ParseExpression(e, p + 1)))
        ELSE Entered(ParseNumber(e, p))

\* _parse_factor
ParseFactor(e, p) ==
    LET Entered(r) == Following(<<Enter("factor", p)>>, r)
        Stepped(r) == Following(<<Enter("factor", p), Advance("factor", p + 1)>>, r)
    IN  IF p >= Len(e) THEN Entered(Raise("Unexpected end of expression", p))
        ELSE IF At(e, p) = "-"
             THEN LET Negate(r) == IF r.ok THEN Following(r.trail, Ok(FNeg(r.val), r.pos))
                                   ELSE r
                  IN  Stepped(Negate(ParseFactor(e, p + 1)))
        ELSE IF At(e, p) = "+" THEN Stepped(ParseFactor(e, p + 1))
        ELSE IF At(e, p) = "("
             THEN LET Close(r) ==
                          IF ~r.ok THEN r
                          ELSE IF r.pos >= Len(e) \/ At(e, r.pos) # ")"
                               THEN Following(r.trail,
                                              Raise("Missing closing parenthesis", r.pos))
                               ELSE Following(Append(r.trail, Advance("factor", r.pos + 1)),
                                              Ok(r.val, r.pos + 1))
                  IN  Stepped(Close(ParseExpression(e, p + 1)))
        ELSE Entered(ParseNumber(e, p))

\* A loop that parses its right operand where the operator stands.
TermLoopStuck(e, result, p) ==
    IF p < Len(e) /\ IsMulOp(At(e, p))
    THEN LET Apply(right) ==
                 IF ~right.ok THEN right
                 ELSE Following(right.trail,
                                TermLoop(e, Operations(At(e, p), result, right.val),
                                         right.pos))
         IN  Following(<<Iterate("term", p)>>, Apply(ParseFactor(e, p)))
    ELSE Ok(result, p)

\* The while loop of _parse_term, result being the value so far.
TermLoop(e, result, p) ==
    IF p < Len(e) /\ IsMulOp(At(e, p))
    THEN LET Apply(right) ==
                 IF ~right.ok THEN right
                 ELSE Following(right.trail,
                                TermLoop(e, Operations(At(e, p), result, right.val),
                                         right.pos))
         IN  Following(<<Iterate("term", p), Advance("term", p + 1)>>,
                       Apply(ParseFactor(e, p + 1)))
    ELSE Ok(result, p)

\* _parse_term
ParseTerm(e, p) ==
    LET Loop(r) == IF ~r.ok THEN r ELSE Following(r.trail, TermLoop(e, r.val, r.pos))
    IN  Following(<<Enter("term", p)>>, Loop(ParseFactor(e, p)))

\* An expression loop that parses everything after the operator as its right
\* operand, so that equal operators group to the right.
ExpressionLoopRight(e, result, p) ==
    IF p < Len(e) /\ IsAddOp(At(e, p))
    THEN LET Apply(right) ==
                 IF ~right.ok THEN right
                 ELSE Following(right.trail,
                                Ok(Operations(At(e, p), result, right.val), right.pos))
         IN  Following(<<Iterate("expression", p), Advance("expression", p + 1)>>,
                       Apply(ParseExpression(e, p + 1)))
    ELSE Ok(result, p)

\* The while loop of _parse_expression, result being the value so far.
ExpressionLoop(e, result, p) ==
    IF p < Len(e) /\ IsAddOp(At(e, p))
    THEN LET Apply(right) ==
                 IF ~right.ok THEN right
                 ELSE Following(right.trail,
                                ExpressionLoop(e, Operations(At(e, p), result, right.val),
                                               right.pos))
         IN  Following(<<Iterate("expression", p), Advance("expression", p + 1)>>,
                       Apply(ParseTerm(e, p + 1)))
    ELSE Ok(result, p)

\* _parse_expression
ParseExpression(e, p) ==
    LET Loop(r) == IF ~r.ok THEN r ELSE Following(r.trail, ExpressionLoop(e, r.val, r.pos))
    IN  Following(<<Enter("expression", p)>>, Loop(ParseTerm(e, p)))

\* An evaluation that does not look at where the cursor stopped.
EvaluateExpressionNoEndCheck(e) == Following(<<Reset>>, ParseExpression(e, 0))

\* _evaluate_expression: self.pos = 0, self.expr = expr, parse, then the
\* check that the cursor reached the end.
EvaluateExpression(e) ==
    LET AtEnd(r) ==
            IF ~r.ok THEN r
            ELSE IF r.pos < Len(e)
                 THEN Following(r.trail,
                                Raise("Unexpected characters at end of expression", r.pos))
                 ELSE r
    IN  Following(<<Reset>>, AtEnd(ParseExpression(e, 0)))

\* set('0123456789+-*/.()')
Allowed == Digits \cup {"+", "-", "*", "/", ".", "(", ")"}

NotWhitespace(c) == c \notin Whitespace

\* re.sub(r'\s+', '', expr)
RemoveWhitespace(s) == SelectSeq(s, NotWhitespace)

RECURSIVE LStrip(_)
LStrip(s) == IF s # <<>> /\ Head(s) \in Whitespace THEN LStrip(Tail(s)) ELSE s

RECURSIVE RStrip(_)
RStrip(s) == IF s # <<>> /\ s[Len(s)] \in Whitespace
             THEN RStrip(SubSeq(s, 1, Len(s) - 1)) ELSE s

\* str.strip()
Strip(s) == RStrip(LStrip(s))

\* _clean_expression: [ok, text], not ok for the ValueError.
CleanExpression(s) ==
    LET t == RemoveWhitespace(s)
    IN  IF \E i \in 1..Len(t) : t[i] \notin Allowed
        THEN [ok |-> FALSE, text |-> t]
        ELSE [ok |-> TRUE, text |-> IF t = <<>> THEN <<"0">> ELSE t]

\* (context.message or "0").strip()
BasicExpression(msg) == Strip(IF msg = <<>> THEN <<"0">> ELSE msg)

\* An entry point that resets the parser before it validates the text.
BasicExecuteImplEager(msg, p0, e0) ==
    LET Answer(text, r) ==
            [ret |-> IF r.ok THEN <<"Result: ", FloatStr(r.val)>>
                     ELSE <<"Calculator Error: ", r.err>>,
             pos |-> r.pos, expr |-> text, trail |-> r.trail]
        Run(c) ==
            IF ~c.ok
            THEN [ret |-> <<"Calculator Error: ", "Invalid characters in expression">>,
                  pos |-> 0, expr |-> c.text, trail |-> <<Reset>>]
            ELSE Answer(c.text, EvaluateExpression(c.text))
    IN  Run(CleanExpression(BasicExpression(msg)))

\* An entry point whose evaluation goes on from the cursor the call before
\* left, where the text has that many characters.
BasicExecuteImplResumes(msg, p0, e0) ==
    LET Answer(text, r) ==
            [ret |-> IF r.ok THEN <<"Result: ", FloatStr(r.val)>>
                     ELSE <<"Calculator Error: ", r.err>>,
             pos |-> r.pos, expr |-> text, trail |-> r.trail]
        AtEnd(text, r) ==
            IF ~r.ok THEN r
            ELSE IF r.pos < Len(text)
                 THEN Following(r.trail,
                                Raise("Unexpected characters at end of expression", r.pos))
                 ELSE r
        Run(c) ==
            IF ~c.ok
            THEN [ret |-> <<"Calculator Error: ", "Invalid characters in expression">>,
                  pos |-> p0, expr |-> e0, trail |-> <<>>]
            ELSE Answer(c.text,
                        AtEnd(c.text,
                              ParseExpression(c.text,
                                              IF p0 < 0 \/ p0 >= Len(c.text) THEN 0 ELSE p0)))
    IN  Run(CleanExpression(BasicExpression(msg)))

\* BasicCalculatorPlugin._execute_impl on an instance whose cursor and
\* stored expression are p0 and e0: the string returned, the two fields
\* after the call and what the call did to the cursor.
BasicExecuteImpl(msg, p0, e0) ==
    LET Answer(text, r) ==
            [ret |-> IF r.ok THEN <<"Result: ", FloatStr(r.val)>>
                     ELSE <<"Calculator Error: ", r.err>>,
             pos |-> r.pos, expr |-> text, trail |-> r.trail]
        Run(c) ==
            IF ~c.ok
            THEN [ret |-> <<"Calculator Error: ", "Invalid characters in expression">>,
                  pos |-> p0, expr |-> e0, trail |-> <<>>]
            ELSE Answer(c.text, EvaluateExpression(c.text))
    IN  Run(CleanExpression(BasicExpression(msg)))

(***************************************************************************)
(* Python text and values, as ExpressionEvaluatorPlugin handles them.      *)
(* A value is [t, v, name]: t is "int", "float", "bool", "func" or "repr";  *)
(* v is the number (an int n is <<n, 1>>, True is <<1, 1>>); name is the   *)
(* name of a built-in function.  A "repr" is a float with more digits than *)
(* the integers of the model hold: v is the characters of its repr(), it   *)
(* can be converted and printed, and arithmetic on it is not modelled.     *)
(* An evaluation step returns [ok, val, err]: the value, or str(e) of the  *)
(* exception raised.                                                       *)
(***************************************************************************)
\* The message of a piece of syntax or arithmetic that the model does not
\* cover.  No message of the model reaches it.
Unmodelled == "<unmodelled syntax>"

LowerLetters ==
    <<"a", "b", "c", "d", "e", "f", "g", "h", "i", "j", "k", "l", "m",
      "n", "o", "p", "q", "r", "s", "t", "u", "v", "w", "x", "y", "z">>

UpperLetters ==
    <<"A", "B", "C", "D", "E", "F", "G", "H", "I", "J", "K", "L", "M",
      "N", "O", "P", "Q", "R", "S", "T", "U", "V", "W", "X", "Y", "Z">>

Letters == {LowerLetters[i] : i \in 1..26} \cup {UpperLetters[i] : i \in 1..26}

LowerChar(c) ==
    IF \E i \in 1..26 : UpperLetters[i] = c
    THEN LowerLetters[CHOOSE i \in 1..26 : UpperLetters[i] = c]
    ELSE c

\* str.lower()
Lower(s) == [i \in 1..Len(s) |-> LowerChar(s[i])]

IsIdentStart(c) == c \in Letters \cup {"_"}

IsIdentChar(c) == IsIdentStart(c) \/ IsDigit(c)

\* str.isidentifier()
IsIdentifier(s) ==
    /\ s # <<>>
    /\ IsIdentStart(s[1])
    /\ \A i \in 2..Len(s) : IsIdentChar(s[i])

\* sub in s, for character sequences.
Contains(s, sub) ==
    \E i \in 1..(Len(s) - Len(sub) + 1) : SubSeq(s, i, i + Len(sub) - 1) = sub

\* The index at which sub first occurs in s, 0 when it does not occur.
IndexOf(s, sub) ==
    IF Contains(s, sub)
    THEN CHOOSE i \in 1..(Len(s) - Len(sub) + 1) :
            /\ SubSeq(s, i, i + Len(sub) - 1) = sub
            /\ \A j \in 1..(i - 1) : SubSeq(s, j, j + Len(sub) - 1) # sub
    ELSE 0

\* s.startswith(prefix)
StartsWith(s, prefix) ==
    Len(s) >= Len(prefix) /\ SubSeq(s, 1, Len(prefix)) = prefix

PyInt(n) == [t |-> "int", v |-> <<n, 1>>, name |-> ""]

PyFloat(x) == [t |-> "float", v |-> x, name |-> ""]

PyBool(b) == [t |-> "bool", v |-> IF b THEN <<1, 1>> ELSE <<0, 1>>, name |-> ""]

PyFunc(nm) == [t |-> "func", v |-> Zero, name |-> nm]

PyRepr(text) == [t |-> "repr", v |-> text, name |-> ""]

IsRepr(x) == x.t = "repr"

\* type(x).__name__
TypeName(x) ==
    IF x.t = "func" THEN "builtin_function_or_method"
    ELSE IF x.t = "repr" THEN "float"
    ELSE x.t

\* int, float and bool take part in arithmetic.
IsReal(x) == x.t \in {"int", "float", "bool"}

\* str(x)
PyStr(x) ==
    CASE x.t = "int" -> IntStr(x.v[1])
      [] x.t = "float" -> FloatStr(x.v)
      [] x.t = "bool" -> (IF x.v[1] = 1 THEN "True" ELSE "False")
      [] x.t = "func" -> "<built-in function " \o x.name \o ">"
      [] x.t = "repr" -> Join(x.v)

Returns(v) == [ok |-> TRUE, val |-> v, err |-> ""]

Raises(msg) == [ok |-> FALSE, val |-> PyInt(0), err |-> msg]

\* float(x)
ToPyFloat(x) ==
    IF IsRepr(x) THEN Returns(x)
    ELSE IF IsReal(x) THEN Returns(PyFloat(x.v))
    ELSE Raises("float() argument must be a string or a real number, not '"
                \o TypeName(x) \o "'")

\* x < y for floats.
FLess(x, y) ==
    IF IsNaN(x) \/ IsNaN(y) THEN FALSE
    ELSE IF IsInf(x) \/ IsInf(y) THEN x # y /\ (x = NegInf \/ y = Inf)
    ELSE x[1] * Abs(y[2]) < y[1] * Abs(x[2])

\* x == y for floats.
FEq(x, y) == ~IsNaN(x) /\ ~IsNaN(y) /\ ~FLess(x, y) /\ ~FLess(y, x)

\* l op r for the floats of many digits that the usage example of the source
\* computes with: <<op, str(l), str(r), repr(l op r)>>.
LongArithmetic ==
    {<<"/", "3.141592653589793", "2",
       <<"1", ".", "5", "7", "0", "7", "9", "6", "3", "2", "6", "7", "9", "4", "8", "9", "6", "6">>>>,
     <<"/", "3.141592653589793", "4",
       <<"0", ".", "7", "8", "5", "3", "9", "8", "1", "6", "3", "3", "9", "7", "4", "4", "8", "3">>>>,
     <<"*", "2", "3.141592653589793",
       <<"6", ".", "2", "8", "3", "1", "8", "5", "3", "0", "7", "1", "7", "9", "5", "8", "6">>>>,
     <<"+", "0.7071067811865475", "0.7071067811865476",
       <<"1", ".", "4", "1", "4", "2", "1", "3", "5", "6", "2", "3", "7", "3", "0", "9", "5">>>>}

\* operator.add, sub, mul and truediv.
BinaryOp(op, l, r) ==
    IF IsRepr(l) \/ IsRepr(r)
    THEN (IF \E m \in LongArithmetic : m[1] = op /\ m[2] = PyStr(l) /\ m[3] = PyStr(r)
          THEN Returns(PyRepr((CHOOSE m \in LongArithmetic :
                                  m[1] = op /\ m[2] = PyStr(l) /\ m[3] = PyStr(r))[4]))
          ELSE Raises(Unmodelled))
    ELSE IF ~(IsReal(l) /\ IsReal(r))
    THEN Raises("unsupported operand type(s) for " \o op \o ": '" \o TypeName(l)
                \o "' and '" \o TypeName(r) \o "'")
    ELSE IF op = "/"
         THEN IF ~IsZero(r.v) THEN Returns(PyFloat(FTrueDiv(l.v, r.v)))
              ELSE IF l.t = "float" \/ r.t = "float"
                   THEN Raises("float division by zero")
                   ELSE Raises("division by zero")
    ELSE IF l.t = "float" \/ r.t = "float"
         THEN Returns(PyFloat(CASE op = "+" -> FAdd(l.v, r.v)
                                [] op = "-" -> FSub(l.v, r.v)
                                [] op = "*" -> FMul(l.v, r.v)))
         ELSE Returns(PyInt(CASE op = "+" -> l.v[1] + r.v[1]
                              [] op = "-" -> l.v[1] - r.v[1]
                              [] op = "*" -> l.v[1] * r.v[1]))

\* operator.neg and operator.pos.
UnaryOp(op, x) ==
    IF IsRepr(x)
    THEN Returns(IF op = "+" THEN x
                 ELSE IF Head(x.v) = "-" THEN PyRepr(Tail(x.v))
                 ELSE PyRepr(<<"-">> \o x.v))
    ELSE IF ~IsReal(x)
    THEN Raises("bad operand type for unary " \o op \o ": '" \o TypeName(x) \o "'")
    ELSE IF x.t = "float"
         THEN Returns(PyFloat(IF op = "-" THEN FNeg(x.v) ELSE x.v))
         ELSE Returns(PyInt(IF op = "-" THEN -x.v[1] ELSE x.v[1]))

\* The six comparison operators of SAFE_OPERATORS; the value is a bool.
CompareOp(op, l, r) ==
    IF IsRepr(l) \/ IsRepr(r) THEN Raises(Unmodelled)
    ELSE IF IsReal(l) /\ IsReal(r)
    THEN Returns(PyBool(CASE op = "==" -> FEq(l.v, r.v)
                          [] op = "!=" -> ~FEq(l.v, r.v)
                          [] op = "<" -> FLess(l.v, r.v)
                          [] op = "<=" -> FLess(l.v, r.v) \/ FEq(l.v, r.v)
                          [] op = ">" -> FLess(r.v, l.v)
                          [] op = ">=" -> FLess(r.v, l.v) \/ FEq(l.v, r.v)))
    ELSE IF op = "==" THEN Returns(PyBool(l = r))
    ELSE IF op = "!=" THEN Returns(PyBool(l # r))
    ELSE Raises("'" \o op \o "' not supported between instances of '"
                \o TypeName(l) \o "' and '" \o TypeName(r) \o "'")

(***************************************************************************)
(* ast.parse(expression, mode='eval') for the part of Python's syntax the  *)
(* messages of the model use: number literals, names, + - * /, unary + -,  *)
(* comparisons, calls and parentheses.  A token is [k, s, val]: k is       *)
(* "num", "name" or "op", s its text, val the value of a number.           *)
(***************************************************************************)
\* The longest literal whose value fits the integers of the model; a
\* longer literal with a '.' is taken to be the repr() of a float.
MaxDigits == 9

Keywords ==
    {"and", "as", "assert", "async", "await", "break", "class", "continue",
     "def", "del", "elif", "else", "except", "finally", "for", "from",
     "global", "if", "import", "in", "is", "lambda", "nonlocal", "not", "or",
     "pass", "raise", "return", "try", "while", "with", "yield",
     "None", "True", "False"}

Token(k, s, val) == [k |-> k, s |-> s, val |-> val]

Scanned(tok, p) == [ok |-> TRUE, tok |-> tok, pos |-> p, err |-> ""]

ScanError(msg, p) ==
    [ok |-> FALSE, tok |-> Token("op", "", PyInt(0)), pos |-> p, err |-> msg]

\* A number literal that starts at cursor p: digits, then an optional '.'
\* and digits; a letter may not follow it.
ScanNumber(s, p) ==
    LET Fraction(p1) == IF p1 < Len(s) /\ At(s, p1) = "." THEN ScanDigits(s, p1 + 1)
                        ELSE p1
        Literal(text, q) ==
            IF q < Len(s) /\ IsIdentChar(At(s, q))
            THEN (IF \/ At(s, q) \in {"e", "E", "j", "J", "_"}
                     \/ text = <<"0">> /\ At(s, q) \in {"x", "X", "b", "B", "o", "O"}
                  THEN ScanError(Unmodelled, q)
                  ELSE ScanError("invalid decimal literal", q))
            ELSE IF \E i \in 1..Len(text) : text[i] = "."
                 THEN (IF Len(text) > MaxDigits
                       THEN Scanned(Token("num", Join(text), PyRepr(text)), q)
                       ELSE Scanned(Token("num", Join(text),
                                          PyFloat(ToFloat(text).val)), q))
            ELSE IF Len(text) > MaxDigits THEN ScanError(Unmodelled, q)
            ELSE IF Len(text) > 1 /\ text[1] = "0" /\ \E i \in 1..Len(text) : text[i] # "0"
                 THEN ScanError("leading zeros in decimal integer literals are not "
                                \o "permitted; use an 0o prefix for octal integers", q)
            ELSE Scanned(Token("num", Join(text), PyInt(DigitsValue(text))), q)
        Number(q) == Literal(SubSeq(s, p + 1, q), q)
    IN  Number(Fraction(ScanDigits(s, p)))

RECURSIVE ScanIdent(_, _)
ScanIdent(s, p) ==
    IF p < Len(s) /\ IsIdentChar(At(s, p)) THEN ScanIdent(s, p + 1) ELSE p

\* A name that starts at cursor p.
ScanName(s, p) ==
    LET Name(text, q) ==
            IF text \in {"True", "False"}
            THEN Scanned(Token("num", text, PyBool(text = "True")), q)
            ELSE IF text = "def" THEN Scanned(Token("op", text, PyInt(0)), q)
            ELSE IF text \in Keywords THEN ScanError(Unmodelled, q)
            ELSE Scanned(Token("name", text, PyInt(0)), q)
        Upto(q) == Name(Join(SubSeq(s, p + 1, q)), q)
    IN  Upto(ScanIdent(s, p))

\* An operator or a delimiter at cursor p.
ScanOp(s, p) ==
    LET c == At(s, p)
        c2 == IF p + 1 < Len(s) THEN At(s, p + 1) ELSE ""
    IN  IF c \in {"=", "!", "<", ">"} /\ c2 = "="
        THEN Scanned(Token("op", c \o c2, PyInt(0)), p + 2)
        ELSE IF c \in {"*", "/"} /\ c2 = c THEN ScanError(Unmodelled, p)
        ELSE IF c \in {"<", ">"} /\ c2 = c THEN ScanError(Unmodelled, p)
        ELSE IF c \in {"+", "-", "*", "/", "(", ")", ",", "<", ">", "=", "!"}
             THEN Scanned(Token("op", c, PyInt(0)), p + 1)
        ELSE ScanError(Unmodelled, p)

RECURSIVE Tokenize(_, _, _, _)
\* The tokens of s from cursor p on, depth parentheses being open:
\* [ok, toks, depth, err].
Tokenize(s, p, depth, toks) ==
    LET c == At(s, p)
        c2 == IF p + 1 < Len(s) THEN At(s, p + 1) ELSE ""
        Continue(r) ==
            IF ~r.ok THEN [ok |-> FALSE, toks |-> toks, depth |-> depth, err |-> r.err]
            ELSE IF r.tok.s = ")" /\ depth = 0
                 THEN [ok |-> FALSE, toks |-> toks, depth |-> depth,
                       err |-> "unmatched ')'"]
            ELSE Tokenize(s, r.pos,
                          depth + (IF r.tok.s = "(" THEN 1
                                   ELSE IF r.tok.s = ")" THEN -1 ELSE 0),
                          Append(toks, r.tok))
    IN  IF p >= Len(s)
        THEN [ok |-> TRUE, toks |-> toks, depth |-> depth, err |-> ""]
        ELSE IF c \in Whitespace THEN Tokenize(s, p + 1, depth, toks)
        ELSE IF IsDigit(c) \/ (c = "." /\ IsDigit(c2)) THEN Continue(ScanNumber(s, p))
        ELSE IF IsIdentStart(c) THEN Continue(ScanName(s, p))
        ELSE Continue(ScanOp(s, p))

\* An AST node is [n, s, value, kids, ops]: n the node class, s the
\* operator or the identifier, value the value of a Constant, kids the child
\* nodes (the callee first for a Call, the left operand first for a
\* Compare) and ops the operators of a Compare.
Node(n, s, value, kids, ops) ==
    [n |-> n, s |-> s, value |-> value, kids |-> kids, ops |-> ops]

Constant(value) == Node("Constant", "", value, <<>>, <<>>)

Name(id) == Node("Name", id, PyInt(0), <<>>, <<>>)

BinOp(left, op, right) == Node("BinOp", op, PyInt(0), <<left, right>>, <<>>)

UnaryOpNode(op, operand) == Node("UnaryOp", op, PyInt(0), <<operand>>, <<>>)

Compare(left, ops, comparators) ==
    Node("Compare", "", PyInt(0), <<left>> \o comparators, ops)

Call(func, args) == Node("Call", "", PyInt(0), <<func>> \o args, <<>>)

Parsed(node, i) == [ok |-> TRUE, node |-> node, pos |-> i, err |-> ""]

SyntaxError(msg, i) == [ok |-> FALSE, node |-> Constant(PyInt(0)), pos |-> i, err |-> msg]

\* The i-th token, an end marker after the last one.
Tok(toks, i) == IF i <= Len(toks) THEN toks[i] ELSE Token("end", "", PyInt(0))

IsOp(tok, ops) == tok.k = "op" /\ tok.s \in ops

\* A token an expression can start with.
StartsExpression(tok) == tok.k \in {"num", "name"} \/ IsOp(tok, {"("})

\* The error for the token after an element of a parenthesised list.
ListError(toks, i) ==
    IF StartsExpression(Tok(toks, i))
    THEN SyntaxError("invalid syntax. Perhaps you forgot a comma?", i)
    ELSE SyntaxError("invalid syntax", i)

ComparisonOps == {"==", "!=", "<", "<=", ">", ">="}

RECURSIVE PyComparison(_, _)
RECURSIVE PyCompareLoop(_, _, _, _, _)
RECURSIVE PyArith(_, _)
RECURSIVE PyArithLoop(_, _, _)
RECURSIVE PyTerm(_, _)
RECURSIVE PyTermLoop(_, _, _)
RECURSIVE PyFactor(_, _)
RECURSIVE PyTrailers(_, _, _)
RECURSIVE PyArgs(_, _, _, _)
RECURSIVE PyAtom(_, _)

\* atom: NUMBER | NAME | '(' expression ')'
PyAtom(toks, i) ==
    LET Close(r) ==
            IF ~r.ok THEN r
            ELSE IF IsOp(Tok(toks, r.pos), {")"}) THEN Parsed(r.node, r.pos + 1)
            ELSE IF IsOp(Tok(toks, r.pos), {","}) THEN SyntaxError(Unmodelled, r.pos)
            ELSE ListError(toks, r.pos)
    IN  IF Tok(toks, i).k = "num" THEN Parsed(Constant(Tok(toks, i).val), i + 1)
        ELSE IF Tok(toks, i).k = "name" THEN Parsed(Name(Tok(toks, i).s), i + 1)
        ELSE IF IsOp(Tok(toks, i), {"("})
             THEN (IF IsOp(Tok(toks, i + 1), {")"}) THEN SyntaxError(Unmodelled, i)
                   ELSE Close(PyComparison(toks, i + 1)))
        ELSE SyntaxError("invalid syntax", i)

\* The arguments of a call up to its ')', i being after '(' or after ','.
PyArgs(toks, func, args, i) ==
    LET More(r) ==
            IF ~r.ok THEN r
            ELSE IF IsOp(Tok(toks, r.pos), {","})
                 THEN PyArgs(toks, func, Append(args, r.node), r.pos + 1)
            ELSE IF IsOp(Tok(toks, r.pos), {")"})
                 THEN Parsed(Call(func, Append(args, r.node)), r.pos + 1)
            ELSE ListError(toks, r.pos)
    IN  IF IsOp(Tok(toks, i), {")"}) THEN Parsed(Call(func, args), i + 1)
        ELSE More(PyComparison(toks, i))

\* primary: atom ('(' arguments ')')*
PyTrailers(toks, node, i) ==
    LET Again(r) == IF ~r.ok THEN r ELSE PyTrailers(toks, r.node, r.pos)
    IN  IF IsOp(Tok(toks, i), {"("}) THEN Again(PyArgs(toks, node, <<>>, i + 1))
        ELSE Parsed(node, i)

\* factor: ('+' | '-') factor | primary
PyFactor(toks, i) ==
    LET Sign(r) == IF ~r.ok THEN r
                   ELSE Parsed(UnaryOpNode(Tok(toks, i).s, r.node), r.pos)
        Trailers(r) == IF ~r.ok THEN r ELSE PyTrailers(toks, r.node, r.pos)
    IN  IF IsOp(Tok(toks, i), {"+", "-"}) THEN Sign(PyFactor(toks, i + 1))
        ELSE Trailers(PyAtom(toks, i))

PyTermLoop(toks, left, i) ==
    LET Apply(r) == IF ~r.ok THEN r
                    ELSE PyTermLoop(toks, BinOp(left, Tok(toks, i).s, r.node), r.pos)
    IN  IF IsOp(Tok(toks, i), {"*", "/"}) THEN Apply(PyFactor(toks, i + 1))
        ELSE Parsed(left, i)

\* term: factor (('*' | '/') factor)*
PyTerm(toks, i) ==
    LET Loop(r) == IF ~r.ok THEN r ELSE PyTermLoop(toks, r.node, r.pos)
    IN  Loop(PyFactor(toks, i))

PyArithLoop(toks, left, i) ==
    LET Apply(r) == IF ~r.ok THEN r
                    ELSE PyArithLoop(toks, BinOp(left, Tok(toks, i).s, r.node), r.pos)
    IN  IF IsOp(Tok(toks, i), {"+", "-"}) THEN Apply(PyTerm(toks, i + 1))
        ELSE Parsed(left, i)

\* sum: term (('+' | '-') term)*
PyArith(toks, i) ==
    LET Loop(r) == IF ~r.ok THEN r ELSE PyArithLoop(toks, r.node, r.pos)
    IN  Loop(PyTerm(toks, i))

PyCompareLoop(toks, left, ops, comparators, i) ==
    LET Apply(r) ==
            IF ~r.ok THEN r
            ELSE PyCompareLoop(toks, left, Append(ops, Tok(toks, i).s),
                               Append(comparators, r.node), r.pos)
    IN  IF IsOp(Tok(toks, i), ComparisonOps) THEN Apply(PyArith(toks, i + 1))
        ELSE IF ops = <<>> THEN Parsed(left, i)
        ELSE Parsed(Compare(left, ops, comparators), i)

\* comparison: sum (compare_op sum)*
PyComparison(toks, i) ==
    LET Loop(r) == IF ~r.ok THEN r
                   ELSE PyCompareLoop(toks, r.node, <<>>, <<>>, r.pos)
    IN  Loop(PyArith(toks, i))

\* str(e) of a SyntaxError of ast.parse (filename "<unknown>") or of eval
\* (filename "<string>").
SyntaxErrorStr(msg, filename, line) ==
    IF msg = Unmodelled THEN Unmodelled
    ELSE msg \o " (" \o filename \o ", line " \o line \o ")"

\* ast.parse(s, mode='eval') and the parser of eval(s): [ok, node, err].
ParsePy(s, filename) ==
    LET Failed(msg, line) ==
            [ok |-> FALSE, node |-> Constant(PyInt(0)),
             err |-> SyntaxErrorStr(msg, filename, line)]
        Finish(t, r) ==
            IF ~r.ok
            THEN (IF r.pos > Len(t.toks) /\ t.depth > 0 /\ r.err # Unmodelled
                  THEN Failed("'(' was never closed", "1")
                  ELSE Failed(r.err, "1"))
            ELSE IF r.pos <= Len(t.toks) THEN Failed("invalid syntax", "1")
            ELSE [ok |-> TRUE, node |-> r.node, err |-> ""]
        Parse(t) ==
            IF ~t.ok THEN Failed(t.err, "1")
            ELSE IF t.toks = <<>> THEN Failed("invalid syntax", "0")
            ELSE Finish(t, PyComparison(t.toks, 1))
    IN  Parse(Tokenize(s, 0, 0, <<>>))

(***************************************************************************)
(* ExpressionEvaluatorPlugin.  self.variables is the sequence of its items *)
(* [k, v] in insertion order, v a float; self.history is the sequence of   *)
(* its entries [expr, result].                                             *)
(***************************************************************************)
\* The keys of self.functions, in insertion order.
FunctionNames == <<"abs", "max", "min", "sum", "len", "pow", "round">>

\* name in self.functions
IsFunction(name) == \E i \in 1..Len(FunctionNames) : FunctionNames[i] = name

\* A variable that a built-in function of the same name hides.
HasVariableUnlessFunction(vs, name) ==
    ~IsFunction(name) /\ \E i \in 1..Len(vs) : vs[i].k = name

\* name in self.variables
HasVariable(vs, name) == \E i \in 1..Len(vs) : vs[i].k = name

\* self.variables[name]
Variable(vs, name) == vs[CHOOSE i \in 1..Len(vs) : vs[i].k = name].v

\* self.variables[name] = v
SetVariable(vs, name, v) ==
    IF HasVariable(vs, name)
    THEN [i \in 1..Len(vs) |-> IF vs[i].k = name THEN [k |-> name, v |-> v] ELSE vs[i]]
    ELSE Append(vs, [k |-> name, v |-> v])

RECURSIVE Extreme(_, _, _, _)
\* max(*args) with op ">" and min(*args) with op "<", best being the
\* extreme of the arguments before the k-th.
Extreme(op, args, best, k) ==
    LET Take(c) == IF ~c.ok THEN c
                   ELSE Extreme(op, args, IF c.val.v[1] = 1 THEN args[k] ELSE best, k + 1)
    IN  IF k > Len(args) THEN Returns(best)
        ELSE Take(CompareOp(op, args[k], best))

RECURSIVE Power(_, _)
\* x ** n for ints, n >= 0.
Power(x, n) == IF n = 0 THEN 1 ELSE x * Power(x, n - 1)

\* func(*args) for a function of self.functions, and for the built-in
\* functions eval() is given.
CallFunction(name, args) ==
    CASE name = "abs" ->
            IF Len(args) # 1
            THEN Raises("abs() takes exactly one argument (" \o NatStr(Len(args))
                        \o " given)")
            ELSE IF IsRepr(args[1]) THEN Raises(Unmodelled)
            ELSE IF ~IsReal(args[1])
                 THEN Raises("bad operand type for abs(): '" \o TypeName(args[1]) \o "'")
            ELSE IF args[1].t = "float"
                 THEN Returns(PyFloat(IF SignBit(args[1].v) THEN FNeg(args[1].v)
                                      ELSE args[1].v))
            ELSE Returns(PyInt(Abs(args[1].v[1])))
      [] name \in {"max", "min"} ->
            IF args = <<>> THEN Raises(name \o " expected at least 1 argument, got 0")
            ELSE IF Len(args) = 1
                 THEN Raises("'" \o TypeName(args[1]) \o "' object is not iterable")
            ELSE Extreme(IF name = "max" THEN ">" ELSE "<", args, args[1], 2)
      [] name = "pow" ->
            IF /\ Len(args) = 2
               /\ args[1].t = "int"
               /\ args[2].t = "int"
               /\ args[2].v[1] >= 0
            THEN Returns(PyInt(Power(args[1].v[1], args[2].v[1])))
            ELSE Raises(Unmodelled)
      [] OTHER -> Raises(Unmodelled)

RECURSIVE EvalNode(_, _)
RECURSIVE EvalArgs(_, _, _, _)
RECURSIVE EvalComparators(_, _, _, _)

\* [self._eval_node(arg) for arg in node.args], from the k-th kid on:
\* [ok, vals, err].
EvalArgs(node, vs, vals, k) ==
    LET More(r) == IF ~r.ok THEN [ok |-> FALSE, vals |-> vals, err |-> r.err]
                   ELSE EvalArgs(node, vs, Append(vals, r.val), k + 1)
    IN  IF k > Len(node.kids) THEN [ok |-> TRUE, vals |-> vals, err |-> ""]
        ELSE More(EvalNode(node.kids[k], vs))

\* The loop over zip(node.ops, node.comparators), from the k-th operator on.
EvalComparators(node, vs, left, k) ==
    LET Decide(right, c) ==
            IF ~c.ok THEN c
            ELSE IF c.val.v[1] = 0 THEN Returns(PyBool(FALSE))
            ELSE EvalComparators(node, vs, right, k + 1)
        Right(r) == IF ~r.ok THEN r
                    ELSE Decide(r.val, CompareOp(node.ops[k], left, r.val))
    IN  IF k > Len(node.ops) THEN Returns(PyBool(TRUE))
        ELSE Right(EvalNode(node.kids[k + 1], vs))

\* _eval_node
EvalNode(node, vs) ==
    LET BinRight(l) ==
            LET Apply(r) == IF ~r.ok THEN r ELSE BinaryOp(node.s, l.val, r.val)
            IN  IF ~l.ok THEN l ELSE Apply(EvalNode(node.kids[2], vs))
        Unary(r) == IF ~r.ok THEN r ELSE UnaryOp(node.s, r.val)
        Comparators(l) == IF ~l.ok THEN l ELSE EvalComparators(node, vs, l.val, 1)
        Invoke(args) == IF ~args.ok THEN Raises(args.err)
                        ELSE CallFunction(node.kids[1].s, args.vals)
    IN  CASE node.n = "Constant" -> Returns(node.value)
          [] node.n = "Name" ->
                IF HasVariable(vs, node.s) THEN Returns(PyFloat(Variable(vs, node.s)))
                ELSE IF IsFunction(node.s) THEN Returns(PyFunc(node.s))
                ELSE Raises("Name '" \o node.s \o "' is not defined")
          [] node.n = "BinOp" -> BinRight(EvalNode(node.kids[1], vs))
          [] node.n = "UnaryOp" -> Unary(EvalNode(node.kids[1], vs))
          [] node.n = "Compare" -> Comparators(EvalNode(node.kids[1], vs))
          [] node.n = "Call" ->
                IF node.kids[1].n # "Name"
                THEN Raises("Complex function calls not supported")
                ELSE IF ~IsFunction(node.kids[1].s)
                     THEN Raises("Function '" \o node.kids[1].s \o "' is not defined")
                ELSE Invoke(EvalArgs(node, vs, <<>>, 2))

\* An evaluation that hands every exception on as it is.
SafeEvalUnwrapped(expression, vs) ==
    LET Eval(t) == IF ~t.ok THEN Raises(t.err) ELSE EvalNode(t.node, vs)
    IN  Eval(ParsePy(expression, "<unknown>"))

\* _safe_eval: every exception becomes a ValueError.
SafeEval(expression, vs) ==
    LET Wrap(r) == IF r.ok \/ r.err = Unmodelled THEN r
                   ELSE Raises("Cannot parse expression: " \o r.err)
        Eval(t) == IF ~t.ok THEN Wrap(Raises(t.err)) ELSE Wrap(EvalNode(t.node, vs))
    IN  Eval(ParsePy(expression, "<unknown>"))

\* The length self.history is cut back to.
HistoryLimit == 50

\* A history that keeps one entry less than the code does.
AddToHistoryShort(history, expression, result) ==
    LET h == Append(history, [expr |-> expression, result |-> result])
    IN  IF Len(h) >= HistoryLimit THEN SubSeq(h, Len(h) - HistoryLimit + 2, Len(h))
        ELSE h

\* A history that keeps its first HistoryLimit entries (h[:50]) and so
\* drops the new entry once it is full.
AddToHistoryFirst(history, expression, result) ==
    LET h == Append(history, [expr |-> expression, result |-> result])
    IN  IF Len(h) > HistoryLimit THEN SubSeq(h, 1, HistoryLimit) ELSE h

\* _add_to_history: append, then keep the last HistoryLimit entries.
AddToHistory(history, expression, result) ==
    LET h == Append(history, [expr |-> expression, result |-> result])
    IN  IF Len(h) > HistoryLimit THEN SubSeq(h, Len(h) - HistoryLimit + 1, Len(h))
        ELSE h

\* What a call did: the string returned, the two attributes after the
\* call, the history entries the call recorded, and whether it emptied the
\* history.
Outcome(ret, vs, history, added, cleared) ==
    [ret |-> ret, variables |-> vs, history |-> history, added |-> added,
     cleared |-> cleared]

\* A call that records nothing.
Reply(ret, vs, history) == Outcome(ret, vs, history, <<>>, FALSE)

\* A call that records the results and not the errors.
RecordResultsOnly(ret, vs, history, expression, result) ==
    IF Head(ret) = "Evaluation Error: "
    THEN Outcome(ret, vs, history, <<>>, FALSE)
    ELSE Outcome(ret, vs, AddToHistory(history, expression, result),
                 <<[expr |-> expression, result |-> result]>>, FALSE)

\* A call that records (expression, result).
Record(ret, vs, history, expression, result) ==
    Outcome(ret, vs, AddToHistory(history, expression, result),
            <<[expr |-> expression, result |-> result]>>, FALSE)

RECURSIVE VarsStr(_, _)
\* ', '.join(f"{k}={v}" for k, v in self.variables.items()), from the k-th on.
VarsStr(vs, k) ==
    IF k > Len(vs) THEN ""
    ELSE vs[k].k \o "=" \o FloatStr(vs[k].v)
         \o (IF k < Len(vs) THEN ", " ELSE "") \o VarsStr(vs, k + 1)

RECURSIVE FuncsStr(_)
\* ', '.join(self.functions.keys()), from the k-th on.
FuncsStr(k) ==
    IF k > Len(FunctionNames) THEN ""
    ELSE FunctionNames[k] \o (IF k < Len(FunctionNames) THEN ", " ELSE "")
         \o FuncsStr(k + 1)

RECURSIVE HistoryStr(_, _)
\* The numbered lines of the entries h, from the k-th on, joined by '\n'.
HistoryStr(h, k) ==
    IF k > Len(h) THEN ""
    ELSE NatStr(k) \o ". " \o h[k].expr \o " = " \o h[k].result
         \o (IF k < Len(h) THEN "\n" ELSE "") \o HistoryStr(h, k + 1)

HelpText ==
    "Help commands:\n?vars - Show variables\n?funcs - Show functions\n"
    \o "?history - Show recent calculations\n?clear - Clear variables and history"

\* A help handler whose ?clear empties the history only.
HandleHelpCommandKeeps(command, vs, history) ==
    LET Dispatch(cmd) ==
            IF cmd = "clear"
            THEN Outcome(<<"Cleared variables and history">>, vs, <<>>, <<>>, TRUE)
            ELSE Reply(<<HelpText>>, vs, history)
    IN  Dispatch(Join(Lower(Tail(command))))

\* _handle_help_command
HandleHelpCommand(command, vs, history) ==
    LET Dispatch(cmd) ==
            IF cmd \in {"vars", "variables"}
            THEN (IF vs = <<>> THEN Reply(<<"No variables defined">>, vs, history)
                  ELSE Reply(<<"Variables: ", VarsStr(vs, 1)>>, vs, history))
            ELSE IF cmd \in {"funcs", "functions"}
                 THEN Reply(<<"Available functions: ", FuncsStr(1)>>, vs, history)
            ELSE IF cmd = "history"
                 THEN (IF history = <<>>
                       THEN Reply(<<"No calculation history">>, vs, history)
                       ELSE Reply(<<"Recent calculations:\n",
                                    HistoryStr(SubSeq(history,
                                                      IF Len(history) > 5
                                                      THEN Len(history) - 4 ELSE 1,
                                                      Len(history)), 1)>>,
                                  vs, history))
            ELSE IF cmd = "clear"
                 THEN Outcome(<<"Cleared variables and history">>, <<>>, <<>>, <<>>, TRUE)
            ELSE Reply(<<HelpText>>, vs, history)
    IN  Dispatch(Join(Lower(Tail(command))))

\* The index of the first c in s, 0 when there is none.
Find(s, c) ==
    IF \E i \in 1..Len(s) : s[i] = c
    THEN CHOOSE i \in 1..Len(s) : s[i] = c /\ \A j \in 1..(i - 1) : s[j] # c
    ELSE 0

\* An assignment that stores the value before it converts it.
HandleAssignmentStoresFirst(expression, vs, history) ==
    LET Store(name, value, f) ==
            IF ~f.ok
            THEN Reply(<<"Assignment Error: ", f.err>>, SetVariable(vs, name, value.v),
                       history)
            ELSE Record(<<"Set ", name, " = ", PyStr(value)>>,
                        SetVariable(vs, name, f.val.v), history,
                        Join(expression), name \o " = " \o PyStr(value))
        Assign(name, r) ==
            IF ~r.ok THEN Reply(<<"Assignment Error: ", r.err>>, vs, history)
            ELSE Store(name, r.val, ToPyFloat(r.val))
        Split(var_name, value_expr) ==
            IF ~IsIdentifier(var_name)
            THEN Reply(<<"Error: ", "Invalid variable name '", Join(var_name), "'">>,
                       vs, history)
            ELSE Assign(Join(var_name), SafeEval(value_expr, vs))
        At1(i) == Split(Strip(SubSeq(expression, 1, i - 1)),
                        Strip(SubSeq(expression, i + 1, Len(expression))))
    IN  At1(Find(expression, "="))

\* An assignment that forgets every other variable.
HandleAssignmentAlone(expression, vs, history) ==
    LET Store(name, value, f) ==
            IF ~f.ok THEN Reply(<<"Assignment Error: ", f.err>>, vs, history)
            ELSE Record(<<"Set ", name, " = ", PyStr(value)>>,
                        <<[k |-> name, v |-> f.val.v]>>, history,
                        Join(expression), name \o " = " \o PyStr(value))
        Assign(name, r) ==
            IF ~r.ok THEN Reply(<<"Assignment Error: ", r.err>>, vs, history)
            ELSE Store(name, r.val, ToPyFloat(r.val))
        Split(var_name, value_expr) ==
            IF ~IsIdentifier(var_name)
            THEN Reply(<<"Error: ", "Invalid variable name '", Join(var_name), "'">>,
                       vs, history)
            ELSE Assign(Join(var_name), SafeEval(value_expr, vs))
        At1(i) == Split(Strip(SubSeq(expression, 1, i - 1)),
                        Strip(SubSeq(expression, i + 1, Len(expression))))
    IN  At1(Find(expression, "="))

\* An assignment that evaluates the right-hand side before it looks at the
\* name.
HandleAssignmentEager(expression, vs, history) ==
    LET Store(name, value, f) ==
            IF ~f.ok THEN Reply(<<"Assignment Error: ", f.err>>, vs, history)
            ELSE Record(<<"Set ", name, " = ", PyStr(value)>>,
                        SetVariable(vs, name, f.val.v), history,
                        Join(expression), name \o " = " \o PyStr(value))
        Assign(var_name, r) ==
            IF ~r.ok THEN Reply(<<"Assignment Error: ", r.err>>, vs, history)
            ELSE IF ~IsIdentifier(var_name)
            THEN Reply(<<"Error: ", "Invalid variable name '", Join(var_name), "'">>,
                       vs, history)
            ELSE Store(Join(var_name), r.val, ToPyFloat(r.val))
        At1(i) == Assign(Strip(SubSeq(expression, 1, i - 1)),
                         SafeEval(Strip(SubSeq(expression, i + 1, Len(expression))), vs))
    IN  At1(Find(expression, "="))

\* _handle_assignment
HandleAssignment(expression, vs, history) ==
    LET Store(name, value, f) ==
            IF ~f.ok THEN Reply(<<"Assignment Error: ", f.err>>, vs, history)
            ELSE Record(<<"Set ", name, " = ", PyStr(value)>>,
                        SetVariable(vs, name, f.val.v), history,
                        Join(expression), name \o " = " \o PyStr(value))
        Assign(name, r) ==
            IF ~r.ok THEN Reply(<<"Assignment Error: ", r.err>>, vs, history)
            ELSE Store(name, r.val, ToPyFloat(r.val))
        Split(var_name, value_expr) ==
            IF ~IsIdentifier(var_name)
            THEN Reply(<<"Error: ", "Invalid variable name '", Join(var_name), "'">>,
                       vs, history)
            ELSE Assign(Join(var_name), SafeEval(value_expr, vs))
        At1(i) == Split(Strip(SubSeq(expression, 1, i - 1)),
                        Strip(SubSeq(expression, i + 1, Len(expression))))
    IN  At1(Find(expression, "="))

\* A handler of 'def' inputs that resets the variables when it rejects the
\* input.
HandleFunctionDefinitionResets(expression, vs, history) ==
    Reply(<<"Error: ",
            "Custom function definitions not yet implemented. Use built-in functions.">>,
          <<>>, history)

\* _handle_function_definition
HandleFunctionDefinition(expression, vs, history) ==
    Reply(<<"Error: ",
            "Custom function definitions not yet implemented. Use built-in functions.">>,
          vs, history)

\* The test of _execute_impl that routes a message to _handle_assignment.
IsAssignment(expression) ==
    /\ Contains(expression, <<"=">>)
    /\ ~\E op \in {<<"=", "=">>, <<"!", "=">>, <<">", "=">>, <<"<", "=">>} :
            Contains(expression, op)

\* An entry point whose except clause returns str(e) without the label.
EvaluatorExecuteImplBare(msg, vs, history) ==
    LET Evaluated(expression, r) ==
            IF r.ok
            THEN Record(<<"Result: ", PyStr(r.val)>>, vs, history,
                        Join(expression), PyStr(r.val))
            ELSE Record(<<r.err>>, vs, history, Join(expression), r.err)
        Run(expression) ==
            IF expression = <<>> THEN Reply(<<"Error: ", "Empty expression">>, vs, history)
            ELSE IF Head(expression) = "?" THEN HandleHelpCommand(expression, vs, history)
            ELSE IF IsAssignment(expression)
                 THEN HandleAssignment(expression, vs, history)
            ELSE IF StartsWith(expression, <<"d", "e", "f", " ">>)
                 THEN HandleFunctionDefinition(expression, vs, history)
            ELSE Evaluated(expression, SafeEval(expression, vs))
    IN  Run(Strip(msg))

\* ExpressionEvaluatorPlugin._execute_impl on an instance whose variables
\* and history are vs and history.
EvaluatorExecuteImpl(msg, vs, history) ==
    LET Evaluated(expression, r) ==
            IF r.ok
            THEN Record(<<"Result: ", PyStr(r.val)>>, vs, history,
                        Join(expression), PyStr(r.val))
            ELSE Record(<<"Evaluation Error: ", r.err>>, vs, history,
                        Join(expression), "Evaluation Error: " \o r.err)
        Run(expression) ==
            IF expression = <<>> THEN Reply(<<"Error: ", "Empty expression">>, vs, history)
            ELSE IF Head(expression) = "?" THEN HandleHelpCommand(expression, vs, history)
            ELSE IF IsAssignment(expression)
                 THEN HandleAssignment(expression, vs, history)
            ELSE IF StartsWith(expression, <<"d", "e", "f", " ">>)
                 THEN HandleFunctionDefinition(expression, vs, history)
            ELSE Evaluated(expression, SafeEval(expression, vs))
    IN  Run(Strip(msg))

(***************************************************************************)
(* ScientificCalculatorPlugin.  An expression is rewritten as text, then   *)
(* evaluated by eval(); each rewriting step works on the characters.       *)
(***************************************************************************)
RECURSIVE Cat(_)
\* The concatenation of a sequence of character sequences.
Cat(ss) ==
    IF ss = <<>> THEN <<>>
    ELSE IF Len(ss) = 1 THEN ss[1]
    ELSE Cat(SubSeq(ss, 1, Len(ss) \div 2))
         \o Cat(SubSeq(ss, (Len(ss) \div 2) + 1, Len(ss)))

\* [a-zA-Z]
IsLetter(c) == c \in Letters

\* re.sub(r'(\d)([a-zA-Z])', r'\1*\2', expr)
StarAfterDigit(s) ==
    Cat([i \in 1..Len(s) |->
            IF i < Len(s) /\ IsDigit(s[i]) /\ IsLetter(s[i + 1])
            THEN <<s[i], "*">> ELSE <<s[i]>>])

\* re.sub(r'(\))([a-zA-Z\d\(])', r'\1*\2', expr)
StarAfterClose(s) ==
    Cat([i \in 1..Len(s) |->
            IF /\ i < Len(s)
               /\ s[i] = ")"
               /\ (IsLetter(s[i + 1]) \/ IsDigit(s[i + 1]) \/ s[i + 1] = "(")
            THEN <<s[i], "*">> ELSE <<s[i]>>])

\* re.sub(r'([a-zA-Z])(\d)', r'\1*\2', expr)
StarAfterLetter(s) ==
    Cat([i \in 1..Len(s) |->
            IF i < Len(s) /\ IsLetter(s[i]) /\ IsDigit(s[i + 1])
            THEN <<s[i], "*">> ELSE <<s[i]>>])

\* _preprocess_expression
PreprocessExpression(expr) ==
    StarAfterLetter(StarAfterClose(StarAfterDigit(RemoveWhitespace(expr))))

RECURSIVE Replace(_, _, _)
\* s.replace(old, new)
Replace(s, old, new) ==
    LET Found(at) ==
            IF at = 0 THEN s
            ELSE SubSeq(s, 1, at - 1) \o new
                 \o Replace(SubSeq(s, at + Len(old), Len(s)), old, new)
    IN  Found(IndexOf(s, old))

FunctionTable ==
    <<<<"s", "i", "n">>,
      <<"c", "o", "s">>,
      <<"t", "a", "n">>,
      <<"a", "s", "i", "n">>,
      <<"a", "c", "o", "s">>,
      <<"a", "t", "a", "n">>,
      <<"s", "i", "n", "h">>,
      <<"c", "o", "s", "h">>,
      <<"t", "a", "n", "h">>,
      <<"l", "o", "g">>,
      <<"l", "n">>,
      <<"l", "o", "g", "2">>,
      <<"s", "q", "r", "t">>,
      <<"a", "b", "s">>,
      <<"c", "e", "i", "l">>,
      <<"f", "l", "o", "o", "r">>,
      <<"f", "a", "c", "t", "o", "r", "i", "a", "l">>,
      <<"d", "e", "g", "r", "e", "e", "s">>,
      <<"r", "a", "d", "i", "a", "n", "s">>,
      <<"e", "x", "p">>>>

Constants ==
    <<[const |-> <<"p", "i">>,
       value |-> <<"3", ".", "1", "4", "1", "5", "9", "2", "6", "5", "3", "5", "8", "9", "7", "9", "3">>],
      [const |-> <<"e">>,
       value |-> <<"2", ".", "7", "1", "8", "2", "8", "1", "8", "2", "8", "4", "5", "9", "0", "4", "5">>],
      [const |-> <<"t", "a", "u">>,
       value |-> <<"6", ".", "2", "8", "3", "1", "8", "5", "3", "0", "7", "1", "7", "9", "5", "8", "6">>],
      [const |-> <<"i", "n", "f">>,
       value |-> <<"i", "n", "f">>]>>

\* math.<func>(x) where it is a short float, for the functions of
\* self.functions and the arguments x the messages of the model apply them
\* to: <<func, str(x), value>>.
MathExact ==
    {<<"acos", "1.0", Zero>>, <<"asin", "0.0", Zero>>,
     <<"atan", "0.0", Zero>>, <<"cos", "0.0", <<1, 1>>>>,
     <<"cos", "3.141592653589793", <<-1, 1>>>>,
     <<"sin", "0.0", Zero>>, <<"cosh", "0.0", <<1, 1>>>>,
     <<"ln", "1.0", Zero>>, <<"ln", "2.718281828459045", <<1, 1>>>>,
     <<"log", "1.0", Zero>>, <<"log", "100.0", <<2, 1>>>>,
     <<"radians", "0.0", Zero>>,
     <<"sin", "1.5707963267948966", <<1, 1>>>>,
     <<"sinh", "0.0", Zero>>, <<"tan", "0.0", Zero>>,
     <<"tanh", "0.0", Zero>>}

\* Where math.<func>(x) raises ValueError("math domain error"): <<func, str(x)>>.
MathDomainErrors ==
    {<<"asin", "2.0">>, <<"acos", "2.0">>, <<"ln", "-1.0">>,
     <<"ln", "0.0">>, <<"log", "-1.0">>, <<"log", "0.0">>,
     <<"sqrt", "-1.0">>}

\* math.<func>(x) where it is a float of many digits: <<func, str(x), repr>>.
MathLong ==
    {<<"sin", "1.0",
       <<"0", ".", "8", "4", "1", "4", "7", "0", "9", "8", "4", "8", "0", "7", "8", "9", "6", "5">>>>,
     <<"acos", "-1.0",
       <<"3", ".", "1", "4", "1", "5", "9", "2", "6", "5", "3", "5", "8", "9", "7", "9", "3">>>>,
     <<"acos", "0.0",
       <<"1", ".", "5", "7", "0", "7", "9", "6", "3", "2", "6", "7", "9", "4", "8", "9", "6", "6">>>>,
     <<"asin", "-1.0",
       <<"-", "1", ".", "5", "7", "0", "7", "9", "6", "3", "2", "6", "7", "9", "4", "8", "9", "6", "6">>>>,
     <<"asin", "1.0",
       <<"1", ".", "5", "7", "0", "7", "9", "6", "3", "2", "6", "7", "9", "4", "8", "9", "6", "6">>>>,
     <<"atan", "-1.0",
       <<"-", "0", ".", "7", "8", "5", "3", "9", "8", "1", "6", "3", "3", "9", "7", "4", "4", "8", "3">>>>,
     <<"atan", "1.0",
       <<"0", ".", "7", "8", "5", "3", "9", "8", "1", "6", "3", "3", "9", "7", "4", "4", "8", "3">>>>,
     <<"atan", "2.0",
       <<"1", ".", "1", "0", "7", "1", "4", "8", "7", "1", "7", "7", "9", "4", "0", "9", "0", "4">>>>,
     <<"cos", "-1.0",
       <<"0", ".", "5", "4", "0", "3", "0", "2", "3", "0", "5", "8", "6", "8", "1", "3", "9", "8">>>>,
     <<"cos", "1.0",
       <<"0", ".", "5", "4", "0", "3", "0", "2", "3", "0", "5", "8", "6", "8", "1", "3", "9", "8">>>>,
     <<"cos", "2.0",
       <<"-", "0", ".", "4", "1", "6", "1", "4", "6", "8", "3", "6", "5", "4", "7", "1", "4", "2", "4">>>>,
     <<"cosh", "-1.0",
       <<"1", ".", "5", "4", "3", "0", "8", "0", "6", "3", "4", "8", "1", "5", "2", "4", "3", "7">>>>,
     <<"cosh", "1.0",
       <<"1", ".", "5", "4", "3", "0", "8", "0", "6", "3", "4", "8", "1", "5", "2", "4", "3", "7">>>>,
     <<"cosh", "2.0",
       <<"3", ".", "7", "6", "2", "1", "9", "5", "6", "9", "1", "0", "8", "3", "6", "3", "1", "4">>>>,
     <<"ln", "2.0",
       <<"0", ".", "6", "9", "3", "1", "4", "7", "1", "8", "0", "5", "5", "9", "9", "4", "5", "3">>>>,
     <<"log", "2.0",
       <<"0", ".", "3", "0", "1", "0", "2", "9", "9", "9", "5", "6", "6", "3", "9", "8", "1", "2">>>>,
     <<"radians", "-1.0",
       <<"-", "0", ".", "0", "1", "7", "4", "5", "3", "2", "9", "2", "5", "1", "9", "9", "4", "3", "2", "9", "5">>>>,
     <<"radians", "1.0",
       <<"0", ".", "0", "1", "7", "4", "5", "3", "2", "9", "2", "5", "1", "9", "9", "4", "3", "2", "9", "5">>>>,
     <<"radians", "2.0",
       <<"0", ".", "0", "3", "4", "9", "0", "6", "5", "8", "5", "0", "3", "9", "8", "8", "6", "5", "9">>>>,
     <<"sin", "-1.0",
       <<"-", "0", ".", "8", "4", "1", "4", "7", "0", "9", "8", "4", "8", "0", "7", "8", "9", "6", "5">>>>,
     <<"sin", "2.0",
       <<"0", ".", "9", "0", "9", "2", "9", "7", "4", "2", "6", "8", "2", "5", "6", "8", "1", "7">>>>,
     <<"sin", "0.7853981633974483",
       <<"0", ".", "7", "0", "7", "1", "0", "6", "7", "8", "1", "1", "8", "6", "5", "4", "7", "5">>>>,
     <<"cos", "0.7853981633974483",
       <<"0", ".", "7", "0", "7", "1", "0", "6", "7", "8", "1", "1", "8", "6", "5", "4", "7", "6">>>>,
     <<"sinh", "-1.0",
       <<"-", "1", ".", "1", "7", "5", "2", "0", "1", "1", "9", "3", "6", "4", "3", "8", "0", "1", "4">>>>,
     <<"sinh", "1.0",
       <<"1", ".", "1", "7", "5", "2", "0", "1", "1", "9", "3", "6", "4", "3", "8", "0", "1", "4">>>>,
     <<"sinh", "2.0",
       <<"3", ".", "6", "2", "6", "8", "6", "0", "4", "0", "7", "8", "4", "7", "0", "1", "9">>>>,
     <<"sqrt", "2.0",
       <<"1", ".", "4", "1", "4", "2", "1", "3", "5", "6", "2", "3", "7", "3", "0", "9", "5", "1">>>>,
     <<"tan", "-1.0",
       <<"-", "1", ".", "5", "5", "7", "4", "0", "7", "7", "2", "4", "6", "5", "4", "9", "0", "2", "3">>>>,
     <<"tan", "1.0",
       <<"1", ".", "5", "5", "7", "4", "0", "7", "7", "2", "4", "6", "5", "4", "9", "0", "2", "3">>>>,
     <<"tan", "2.0",
       <<"-", "2", ".", "1", "8", "5", "0", "3", "9", "8", "6", "3", "2", "6", "1", "5", "1", "9">>>>,
     <<"tanh", "-1.0",
       <<"-", "0", ".", "7", "6", "1", "5", "9", "4", "1", "5", "5", "9", "5", "5", "7", "6", "4", "9">>>>,
     <<"tanh", "1.0",
       <<"0", ".", "7", "6", "1", "5", "9", "4", "1", "5", "5", "9", "5", "5", "7", "6", "4", "9">>>>,
     <<"tanh", "2.0",
       <<"0", ".", "9", "6", "4", "0", "2", "7", "5", "8", "0", "0", "7", "5", "8", "1", "6", "9">>>>}

RECURSIVE ReplaceConstants(_, _)
\* The loop over self.constants.items(), from the k-th constant on.
ReplaceConstants(expr, k) ==
    IF k > Len(Constants) THEN expr
    ELSE ReplaceConstants(Replace(expr, Constants[k].const, Constants[k].value), k + 1)

\* The names of length n, in the order of the table.
OfLength(n) == SelectSeq(FunctionTable, LAMBDA f : Len(f) = n)

RECURSIVE LongestFirst(_)
\* The names of length n and shorter, the longest first.
LongestFirst(n) == IF n = 0 THEN <<>> ELSE OfLength(n) \o LongestFirst(n - 1)

\* The names in the order of the table, the short ones before the long ones
\* that hold them.
TableOrder == FunctionTable

\* sorted(self.functions.keys(), key=len, reverse=True)
SortedFunctions ==
    LongestFirst(CHOOSE n \in 1..Len(FunctionTable) * 9 :
                    /\ \E i \in 1..Len(FunctionTable) : Len(FunctionTable[i]) = n
                    /\ \A i \in 1..Len(FunctionTable) : Len(FunctionTable[i]) <= n)

RECURSIVE Factorial(_)
Factorial(n) == IF n <= 1 THEN 1 ELSE n * Factorial(n - 1)

\* The largest n whose factorial fits the integers of the model.
MaxFactorial == 12

\* int(x) of a float: [ok, val, err].
IntOfFloat(x) ==
    IF IsNaN(x) THEN Raises("cannot convert float NaN to integer")
    ELSE IF IsInf(x) THEN Raises("cannot convert float infinity to integer")
    ELSE Returns(PyInt(IF x[1] < 0 THEN -(Abs(x[1]) \div Abs(x[2]))
                       ELSE x[1] \div Abs(x[2])))

\* math.floor(x) of a float.
Floor(x) ==
    LET Down(t) == IF ~t.ok THEN t
                   ELSE IF x[1] < 0 /\ Abs(x[1]) % Abs(x[2]) # 0
                        THEN Returns(PyInt(t.val.v[1] - 1))
                   ELSE t
    IN  Down(IntOfFloat(x))

\* math.ceil(x) of a float.
Ceil(x) ==
    LET Up(t) == IF ~t.ok THEN t
                 ELSE IF x[1] > 0 /\ x[1] % Abs(x[2]) # 0
                      THEN Returns(PyInt(t.val.v[1] + 1))
                 ELSE t
    IN  Up(IntOfFloat(x))

\* The n with n * n = k, or -1.
RootOf(k) ==
    IF \E n \in 0..k : n * n = k THEN CHOOSE n \in 0..k : n * n = k ELSE -1

\* func(arg_value) for the functions of self.functions: [ok, val, err].
ApplyFunction(func_name, x) ==
    LET arg == PyStr(x)
        Table == IF \E m \in MathExact : m[1] = func_name /\ m[2] = arg
                 THEN Returns(PyFloat((CHOOSE m \in MathExact :
                                          m[1] = func_name /\ m[2] = arg)[3]))
                 ELSE IF <<func_name, arg>> \in MathDomainErrors
                      THEN Raises("math domain error")
                 ELSE IF \E m \in MathLong : m[1] = func_name /\ m[2] = arg
                      THEN Returns(PyRepr((CHOOSE m \in MathLong :
                                              m[1] = func_name /\ m[2] = arg)[3]))
                 ELSE Raises(Unmodelled)
    IN  CASE IsRepr(x) -> Table
          [] func_name = "abs" -> CallFunction("abs", <<x>>)
          [] func_name = "floor" -> Floor(x.v)
          [] func_name = "ceil" -> Ceil(x.v)
          [] func_name = "factorial" ->
                IF x.v[1] < 0
                THEN Raises("factorial() not defined for negative values")
                ELSE IF x.v[1] > MaxFactorial THEN Raises(Unmodelled)
                ELSE Returns(PyInt(Factorial(x.v[1])))
          [] func_name = "sqrt" /\ IsFinite(x.v) /\ x.v[1] >= 0
                /\ RootOf(x.v[1]) >= 0 /\ RootOf(Abs(x.v[2])) > 0 ->
                IF IsZero(x.v) THEN Returns(x)
                ELSE Returns(PyFloat(<<RootOf(x.v[1]), RootOf(x.v[2])>>))
          [] OTHER -> Table

\* str(result) of the value a function returned, as characters.
ResultChars(x) ==
    CASE x.t = "int" -> IntChars(x.v[1])
      [] x.t = "float" -> FloatChars(x.v)
      [] x.t = "repr" -> x.v

\* A step of the rewriting: the text, or str(e) of the exception raised.
Rewritten(text) == [ok |-> TRUE, text |-> text, err |-> ""]

RewriteError(msg) == [ok |-> FALSE, text |-> <<>>, err |-> msg]

\* eval(expr, allowed_names): the names are abs, pow, min and max.
AllowedNames == {"abs", "pow", "min", "max"}

RECURSIVE PyEvalNode(_)
RECURSIVE PyEvalArgs(_, _, _)
RECURSIVE PyEvalComparators(_, _, _)

\* The arguments of a call, from the k-th kid on: [ok, vals, err].
PyEvalArgs(node, vals, k) ==
    LET More(r) == IF ~r.ok THEN [ok |-> FALSE, vals |-> vals, err |-> r.err]
                   ELSE PyEvalArgs(node, Append(vals, r.val), k + 1)
    IN  IF k > Len(node.kids) THEN [ok |-> TRUE, vals |-> vals, err |-> ""]
        ELSE More(PyEvalNode(node.kids[k]))

\* A chain of comparisons, from the k-th operator on: it ends at the first
\* comparison that is false.
PyEvalComparators(node, left, k) ==
    LET Decide(right, c) ==
            IF ~c.ok \/ k = Len(node.ops) \/ c.val.v[1] = 0 THEN c
            ELSE PyEvalComparators(node, right, k + 1)
        Right(r) == IF ~r.ok THEN r
                    ELSE Decide(r.val, CompareOp(node.ops[k], left, r.val))
    IN  Right(PyEvalNode(node.kids[k + 1]))

\* The value of an expression under eval(): [ok, val, err].
PyEvalNode(node) ==
    LET BinRight(l) ==
            LET Apply(r) == IF ~r.ok THEN r ELSE BinaryOp(node.s, l.val, r.val)
            IN  IF ~l.ok THEN l ELSE Apply(PyEvalNode(node.kids[2]))
        Unary(r) == IF ~r.ok THEN r ELSE UnaryOp(node.s, r.val)
        Comparators(l) == IF ~l.ok THEN l ELSE PyEvalComparators(node, l.val, 1)
        Invoke(f, args) ==
            IF ~args.ok THEN Raises(args.err)
            ELSE IF f.t # "func"
                 THEN Raises("'" \o TypeName(f) \o "' object is not callable")
            ELSE CallFunction(f.name, args.vals)
        Callee(f) == IF ~f.ok THEN f ELSE Invoke(f.val, PyEvalArgs(node, <<>>, 2))
    IN  CASE node.n = "Constant" -> Returns(node.value)
          [] node.n = "Name" ->
                IF node.s \in AllowedNames THEN Returns(PyFunc(node.s))
                ELSE Raises("name '" \o node.s \o "' is not defined")
          [] node.n = "BinOp" -> BinRight(PyEvalNode(node.kids[1]))
          [] node.n = "UnaryOp" -> Unary(PyEvalNode(node.kids[1]))
          [] node.n = "Compare" -> Comparators(PyEvalNode(node.kids[1]))
          [] node.n = "Call" -> Callee(PyEvalNode(node.kids[1]))

RECURSIVE EvaluateScientificExpression(_)
RECURSIVE ProcessFunctions(_, _)
RECURSIVE SubFunction(_, _, _)
RECURSIVE ReplaceFunc(_, _)

\* A replacement that reports a failing argument under the name of the
\* function.
ReplaceFuncNamed(func_name, arg_expr) ==
    LET name == Join(func_name)
        Applied(v, r) ==
            IF r.ok THEN Rewritten(ResultChars(r.val))
            ELSE IF r.err = Unmodelled THEN RewriteError(Unmodelled)
            ELSE RewriteError("Error in " \o name \o "(" \o PyStr(v) \o "): " \o r.err)
        Apply(v) == Applied(v, ApplyFunction(name, v))
        Cast(v, n) == IF n.ok THEN Apply(n.val) ELSE Applied(v, n)
        Argument(a) ==
            IF ~a.ok
            THEN RewriteError("Error in " \o name \o "(" \o Join(arg_expr) \o "): " \o a.err)
            ELSE IF name = "factorial"
                 THEN (IF IsRepr(a.val) THEN RewriteError(Unmodelled)
                       ELSE Cast(a.val, IntOfFloat(a.val.v)))
            ELSE Apply(a.val)
    IN  Argument(EvaluateScientificExpression(arg_expr))

\* replace_func(match) for a match of func_name whose group 1 is arg_expr:
\* the replacement text.
ReplaceFunc(func_name, arg_expr) ==
    LET name == Join(func_name)
        Applied(v, r) ==
            IF r.ok THEN Rewritten(ResultChars(r.val))
            ELSE IF r.err = Unmodelled THEN RewriteError(Unmodelled)
            ELSE RewriteError("Error in " \o name \o "(" \o PyStr(v) \o "): " \o r.err)
        Apply(v) == Applied(v, ApplyFunction(name, v))
        Cast(v, n) == IF n.ok THEN Apply(n.val) ELSE Applied(v, n)
        Argument(a) ==
            IF ~a.ok THEN RewriteError(a.err)
            ELSE IF name = "factorial"
                 THEN (IF IsRepr(a.val) THEN RewriteError(Unmodelled)
                       ELSE Cast(a.val, IntOfFloat(a.val.v)))
            ELSE Apply(a.val)
    IN  Argument(EvaluateScientificExpression(arg_expr))

\* The index of the first ')' of s after index i, 0 when there is none.
FindClose(s, i) ==
    IF \E j \in (i + 1)..Len(s) : s[j] = ")"
    THEN CHOOSE j \in (i + 1)..Len(s) :
            s[j] = ")" /\ \A m \in (i + 1)..(j - 1) : s[m] # ")"
    ELSE 0

\* re.sub(rf'{func_name}\(([^)]+)\)', replace_func, expr): done is the text
\* produced so far and s the text still to scan. The scan moves to the
\* next "func_name(" (at); where no ')' or an empty argument follows, the
\* search goes on one character later.
SubFunction(func_name, s, done) ==
    LET Matched(at, close) ==
            LET Replaced(r) ==
                    IF ~r.ok THEN r
                    ELSE SubFunction(func_name, SubSeq(s, close + 1, Len(s)),
                                     done \o SubSeq(s, 1, at - 1) \o r.text)
            IN  Replaced(ReplaceFunc(func_name,
                                     SubSeq(s, at + Len(func_name) + 1, close - 1)))
        Opened(at, close) ==
            IF close > at + Len(func_name) + 1 THEN Matched(at, close)
            ELSE SubFunction(func_name, SubSeq(s, at + 1, Len(s)),
                             done \o SubSeq(s, 1, at))
        Found(at) ==
            IF at = 0 THEN Rewritten(done \o s)
            ELSE Opened(at, FindClose(s, at + Len(func_name)))
    IN  Found(IndexOf(s, Append(func_name, "(")))

\* The first name of the sorted list, from the k-th on, that expr holds
\* followed by '(': the index in the list, 0 when there is none. A name that
\* expr does not hold this way has no match, and its re.sub returns expr.
NextFunction(expr, k) ==
    LET Occurs(i) == Contains(expr, Append(SortedFunctions[i], "("))
    IN  IF \E i \in k..Len(SortedFunctions) : Occurs(i)
        THEN CHOOSE i \in k..Len(SortedFunctions) :
                Occurs(i) /\ \A j \in k..(i - 1) : ~Occurs(j)
        ELSE 0

\* _process_functions, from the k-th name of the sorted list on.
ProcessFunctions(expr, k) ==
    LET Rest(r, i) == IF ~r.ok THEN r ELSE ProcessFunctions(r.text, i + 1)
        Step(i) == IF i = 0 THEN Rewritten(expr)
                   ELSE Rest(SubFunction(SortedFunctions[i], expr, <<>>), i)
    IN  Step(NextFunction(expr, k))

\* _evaluate_scientific_expression: [ok, val, err], val a float.
EvaluateScientificExpression(expr) ==
    LET Wrap(r) == IF r.ok \/ r.err = Unmodelled THEN r
                   ELSE Raises("Cannot evaluate expression: " \o r.err)
        Convert(r) == IF ~r.ok THEN r ELSE ToPyFloat(r.val)
        Evaluate(t) == IF ~t.ok THEN Raises(t.err) ELSE Convert(PyEvalNode(t.node))
        Processed(p) == IF ~p.ok THEN Raises(p.err)
                        ELSE Evaluate(ParsePy(p.text, "<string>"))
        Cleaned(e) ==
            IF e = <<>> \/ e = <<"0">> THEN Returns(PyFloat(Zero))
            ELSE Wrap(Processed(ProcessFunctions(ReplaceConstants(e, 1), 1)))
    IN  Cleaned(PreprocessExpression(expr))

RECURSIVE NatDigits(_)
\* The decimal digits of n, the most significant first; none for 0.
NatDigits(n) == IF n = 0 THEN <<>> ELSE Append(NatDigits(n \div 10), n % 10)

RECURSIVE FracDigitSeq(_, _, _, _)
\* The first k decimal digits of r/d after acc, 0 <= r < d, and whether
\* digits other than 0 follow them.
FracDigitSeq(r, d, k, acc) ==
    IF r = 0 \/ k = 0 THEN [digits |-> acc, more |-> r # 0]
    ELSE FracDigitSeq((r * 10) % d, d, k - 1, Append(acc, (r * 10) \div d))

RECURSIVE Increment(_)
\* The digits of the number after ds; one digit longer when all are 9.
Increment(ds) ==
    IF ds = <<>> THEN <<1>>
    ELSE IF ds[Len(ds)] < 9 THEN [ds EXCEPT ![Len(ds)] = @ + 1]
    ELSE Append(Increment(SubSeq(ds, 1, Len(ds) - 1)), 0)

RECURSIVE StripZeros(_)
\* ds without the zeros at its end.
StripZeros(ds) ==
    IF ds # <<>> /\ ds[Len(ds)] = 0 THEN StripZeros(SubSeq(ds, 1, Len(ds) - 1))
    ELSE ds

RECURSIVE LeadingZeros(_)
\* The number of zeros ds starts with.
LeadingZeros(ds) ==
    IF ds # <<>> /\ Head(ds) = 0 THEN 1 + LeadingZeros(Tail(ds)) ELSE 0

\* The digits ds as a string.
DigitsStr(ds) == Join([i \in 1..Len(ds) |-> DigitChars[ds[i] + 1]])

\* The precision of the format '.10g'.
Precision == 10

\* The digits the model carries for a fraction.
FractionDigits == 16

\* f"{x:.10g}" of a float that is not an integer: its sign, the digits ip
\* before the point (none for 0), the digits fr after it, and whether digits
\* other than 0 follow them.  Positional notation is used between 1e-4 and
\* 1e10; a float midway between two results is not decided.
FormatG(neg, ip, fr, more) ==
    LET all == ip \o fr
        keep == LeadingZeros(all) + Precision
        Layout(ds, point) ==
            (IF neg THEN "-" ELSE "")
            \o (IF point = 0 THEN "0" ELSE DigitsStr(SubSeq(ds, 1, point)))
            \o (IF StripZeros(SubSeq(ds, point + 1, Len(ds))) = <<>> THEN ""
                ELSE "." \o DigitsStr(StripZeros(SubSeq(ds, point + 1, Len(ds)))))
        Rounded(ds) ==
            IF Len(ds) = keep THEN Layout(ds, Len(ip))
            ELSE IF Len(ip) = Precision THEN Unmodelled
            ELSE Layout(ds, Len(ip) + 1)
        Round(next, rest) ==
            IF next = 5 /\ ~rest THEN Unmodelled
            ELSE IF next >= 5 THEN Rounded(Increment(SubSeq(all, 1, keep)))
            ELSE Layout(SubSeq(all, 1, keep), Len(ip))
    IN  IF LeadingZeros(all) >= 4 \/ Len(ip) > Precision THEN Unmodelled
        ELSE IF Len(all) <= keep
             THEN (IF more THEN Unmodelled ELSE Layout(all, Len(ip)))
        ELSE Round(all[keep + 1],
                   more \/ \E i \in (keep + 2)..Len(all) : all[i] # 0)

\* The digits of the characters cs.
DigitValues(cs) == [i \in 1..Len(cs) |-> DigitVal(cs[i])]

\* The format of _execute_impl for a float result: [ok, val, err], val the
\* text after "Result: ".
FormatResult(x) ==
    LET Exact(v) ==
            LET Fraction(f) ==
                    Returns(FormatG(v[1] < 0, NatDigits(Abs(v[1]) \div v[2]),
                                    f.digits, f.more))
                Whole(n) ==
                    IF ~n.ok THEN n
                    ELSE IF Abs(v[1]) % Abs(v[2]) = 0 THEN Returns(IntStr(n.val.v[1]))
                    ELSE Fraction(FracDigitSeq(Abs(v[1]) % v[2], v[2],
                                               FractionDigits, <<>>))
            IN  Whole(IntOfFloat(v))
        Long(neg, body) ==
            LET Split(ip, fr) ==
                    IF \A i \in 1..Len(fr) : fr[i] = 0
                    THEN Returns((IF neg /\ ip # <<>> THEN "-" ELSE "")
                                 \o (IF ip = <<>> THEN "0" ELSE DigitsStr(ip)))
                    ELSE Returns(FormatG(neg, ip, fr, FALSE))
                Digits2(ip, fr) == Split(SubSeq(ip, LeadingZeros(ip) + 1, Len(ip)), fr)
                At1(dot) == Digits2(DigitValues(SubSeq(body, 1, dot - 1)),
                                    DigitValues(SubSeq(body, dot + 1, Len(body))))
            IN  At1(Find(body, "."))
    IN  IF IsRepr(x)
        THEN Long(Head(x.v) = "-", IF Head(x.v) = "-" THEN Tail(x.v) ELSE x.v)
        ELSE Exact(x.v)

\* ScientificCalculatorPlugin._execute_impl: the string returned.
ScientificExecuteImpl(msg) ==
    LET Formatted(f) ==
            IF f.ok THEN <<"Result: ", f.val>>
            ELSE <<"Scientific Calculator Error: ", f.err>>
        Answer(r) ==
            IF ~r.ok THEN <<"Scientific Calculator Error: ", r.err>>
            ELSE Formatted(FormatResult(r.val))
        Run(expression) == Answer(EvaluateScientificExpression(expression))
    IN  Run(Strip(IF msg = <<>> THEN <<"0">> ELSE msg))

(***************************************************************************)
(* The plugins that keep state in the memory of the context.  The memory   *)
(* returns under a key what was last stored under it, and the default of   *)
(* the recall where nothing was stored.                                    *)
(***************************************************************************)
\* await context.recall(key, default)
Recall(mem, key, default) == IF key \in DOMAIN mem THEN mem[key] ELSE default

\* await context.remember(key, value)
Remember(mem, key, value) ==
    [k \in DOMAIN mem \cup {key} |-> IF k = key THEN value ELSE mem[k]]

\* A call of context.recall or context.remember, with its default or value.
Recalled(key, default) == [op |-> "recall", key |-> key, value |-> default]

Remembered(key, value) == [op |-> "remember", key |-> key, value |-> value]

\* A MyFirstPlugin that stores the counter it read.
MyFirstPluginStale(msg, mem) ==
    LET Count(counter) ==
            [ret |-> <<"[Visit #", NatStr(counter + 1), "] Processed: ", Join(msg)>>,
             memory |-> Remember(mem, "visit_count", counter),
             accesses |-> <<Recalled("visit_count", 0),
                            Remembered("visit_count", counter)>>]
    IN  Count(Recall(mem, "visit_count", 0))

\* MyFirstPlugin._execute_impl on a context whose message is msg and whose
\* memory is mem: the string returned, the memory afterwards and the calls
\* made on it.
MyFirstPluginExecuteImpl(msg, mem) ==
    LET Count(counter) ==
            [ret |-> <<"[Visit #", NatStr(counter + 1), "] Processed: ", Join(msg)>>,
             memory |-> Remember(mem, "visit_count", counter + 1),
             accesses |-> <<Recalled("visit_count", 0),
                            Remembered("visit_count", counter + 1)>>]
    IN  Count(Recall(mem, "visit_count", 0))

\* The turns ConversationTrackerPlugin keeps at the OUTPUT stage.
KeptTurns == 20

\* len([h for h in history if h.get("speaker") == speaker])
TurnsOf(h, speaker) == Len(SelectSeq(h, LAMBDA t : t.speaker = speaker))

\* The turn recorded for speaker at time now.
Turn(h, speaker, msg, now) ==
    [timestamp |-> now, speaker |-> speaker, message |-> Join(msg),
     turn_number |-> TurnsOf(h, speaker) + 1]

\* ConversationTrackerPlugin._execute_impl on a context whose message is
\* msg, whose current_stage_name is stage_name and whose memory is mem, with
\* time.time() returning now: the string returned, the memory afterwards
\* and the calls made on it.
ConversationTrackerExecuteImpl(msg, stage_name, mem, now) ==
    LET Input(h) ==
            [ret |-> <<Join(msg)>>,
             memory |-> Remember(Remember(mem, "conversation_history", h),
                                 "last_user_input", Join(msg)),
             accesses |-> <<Recalled("conversation_history", <<>>),
                            Remembered("conversation_history", h),
                            Remembered("last_user_input", Join(msg))>>]
        Output(h) ==
            IF Len(h) > KeptTurns
            THEN [ret |-> <<Join(msg)>>,
                  memory |-> Remember(mem, "conversation_history",
                                      SubSeq(h, Len(h) - KeptTurns + 1, Len(h))),
                  accesses |-> <<Recalled("conversation_history", <<>>),
                                 Remembered("conversation_history", h),
                                 Remembered("conversation_history",
                                            SubSeq(h, Len(h) - KeptTurns + 1, Len(h)))>>]
            ELSE [ret |-> <<Join(msg)>>,
                  memory |-> Remember(mem, "conversation_history", h),
                  accesses |-> <<Recalled("conversation_history", <<>>),
                                 Remembered("conversation_history", h)>>]
        Track(history0) ==
            IF stage_name = "INPUT"
            THEN Input(Append(history0, Turn(history0, "user", msg, now)))
            ELSE IF stage_name = "OUTPUT"
            THEN Output(Append(history0, Turn(history0, "agent", msg, now)))
            ELSE [ret |-> <<Join(msg)>>, memory |-> mem,
                  accesses |-> <<Recalled("conversation_history", <<>>)>>]
    IN  Track(Recall(mem, "conversation_history", <<>>))

(***************************************************************************)
(* The messages the callers send.                                          *)
(***************************************************************************)
\* The number literals generated expressions are built from.
Leaves == {<<"0">>, <<"2">>, <<"5">>}

BinOps == {"+", "-", "*", "/"}

RECURSIVE Grammar(_)
\* The strings the grammar
\*   expression := term (('+' | '-') term)*
\*   term       := factor (('*' | '/') factor)*
\*   factor     := '-' factor | '(' expression ')' | number
\* derives from Leaves with at most k operators, a sign and a pair of
\* parentheses each counting as one.
Grammar(k) ==
    IF k = 0 THEN Leaves
    ELSE LET less == [i \in 0..(k - 1) |-> Grammar(i)]
         IN  less[k - 1]
             \cup UNION {{a \o <<op>> \o b : a \in less[i], b \in less[k - 1 - i]} :
                         i \in 0..(k - 1), op \in BinOps}
             \cup {<<"-">> \o a : a \in less[k - 1]}
             \cup {<<"(">> \o a \o <<")">> : a \in less[k - 1]}

\* A parenthesised binary operation as the left or the right operand of
\* another one.
ParenForms ==
    UNION {{<<"(">> \o a \o <<o1>> \o b \o <<")", o2>> \o c,
            a \o <<o2, "(">> \o b \o <<o1>> \o c \o <<")">>} :
           a \in Leaves, b \in Leaves, c \in Leaves, o1 \in BinOps, o2 \in BinOps}

\* The characters of the enumerated short messages: digits, every operator
\* character, whitespace and a letter outside the whitelist.
Alphabet == {"0", "2", "5", "+", "-", "*", "/", "(", ")", ".", " ", "a"}

RECURSIVE Strings(_)
\* Every string over Alphabet of at most n characters.
Strings(n) ==
    IF n = 0 THEN {<<>>}
    ELSE LET shorter == Strings(n - 1)
         IN  shorter \cup {Append(s, c) : s \in shorter, c \in Alphabet}

\* The inputs the specification and the source's usage examples name.
Examples ==
    { <<"2", " ", "+", " ", "3", " ", "*", " ", "4">>,
      <<"(", "2", " ", "+", " ", "3", ")", " ", "*", " ", "4">>,
      <<"1", "0", " ", "-", " ", "2", " ", "-", " ", "3">>,
      <<"1", "0", " ", "/", " ", "0">>,
      <<"1", "0", " ", "/", " ", "2">>,
      <<"-", "1", "0", "/", "0">>,
      <<"3", ".", "1", "4", " ", "*", " ", "2">>,
      <<"2", " ", "+", " ", "3", " ", "4">>,
      <<"(", "2", " ", "+", " ", "3">>,
      <<"2", " ", "+", " ", "3", ")">>,
      <<"2", " ", "+", " ", "a", "b", "c">> }

\* Later calls on an instance: a successful evaluation, the failures that
\* stop the parser at different places, and rejected input.
Repeats ==
    { <<"2", "+", "3">>,
      <<"(", "2", " ", "+", " ", "3">>,
      <<"2", " ", "+", " ", "3", ")">>,
      <<"2", "*">>,
      <<"2", " ", "+", " ", "a", "b", "c">>,
      <<"a">> }

\* s without its i-th character.
RemoveAt(s, i) == SubSeq(s, 1, i - 1) \o SubSeq(s, i + 1, Len(s))

\* s with character c put before its i-th character (after the last one for
\* i = Len(s) + 1).
InsertAt(s, i, c) == SubSeq(s, 1, i - 1) \o <<c>> \o SubSeq(s, i, Len(s))

\* Generated expressions with one defect: a ')' removed or a ')' added.
Defects ==
    LET good == Grammar(MaxOps - 1) \cup ParenForms
    IN  UNION {{RemoveAt(s, i) : i \in {j \in 1..Len(s) : s[j] = ")"}}
               \cup {InsertAt(s, i, ")") : i \in 2..(Len(s) + 1)} : s \in good}

\* The first message an instance receives.
Messages ==
    Grammar(MaxOps) \cup ParenForms \cup Defects \cup Strings(MaxLen) \cup Examples

\* The messages that build up an evaluator's variables and history: the
\* specification's example sequence, a reassignment, a variable named like
\* a built-in function, and ?clear.
EvaluatorSetup ==
    { <<"x", " ", "=", " ", "5">>,
      <<"y", " ", "=", " ", "x", " ", "*", " ", "2">>,
      <<"x", " ", "+", " ", "y">>,
      <<"x", " ", "=", " ", "2">>,
      <<"a", "b", "s", " ", "=", " ", "4">>,
      <<"?", "c", "l", "e", "a", "r">> }

\* Messages of every kind _execute_impl tells apart: help commands,
\* assignments that succeed, are rejected or fail, 'def' inputs, names and
\* calls, arithmetic and comparisons, and text that does not parse.
EvaluatorExamples ==
    { <<"2", " ", "+", " ", "3", " ", "*", " ", "4">>,
      <<"?", "v", "a", "r", "s">>,
      <<"?", "h", "i", "s", "t", "o", "r", "y">>,
      <<"5", " ", ">", " ", "3">>,
      <<"1", "0", " ", "/", " ", "0">>,
      <<"x", " ", "+", " ", "z">>,
      <<"u", "n", "d", "e", "f", "i", "n", "e", "d", "_", "v", "a", "r", " ", "+", " ", "1">>,
      <<"?">>,
      <<"?", "f", "u", "n", "c", "s">>,
      <<"?", "v", "a", "r", "i", "a", "b", "l", "e", "s">>,
      <<"?", "f", "u", "n", "c", "t", "i", "o", "n", "s">>,
      <<"?", "V", "A", "R", "S">>,
      <<"?", "x">>,
      <<"?", "c", "l", "e", "a", "r", " ">>,
      <<"x", " ", "=", " ", "7">>,
      <<"y", " ", "=", " ", "2", ".", "5">>,
      <<"z", " ", "=", " ", "x">>,
      <<"z", " ", "=", " ", "y">>,
      <<"x", " ", "=", " ">>,
      <<"=", " ", "3">>,
      <<"1", "z", " ", "=", " ", "3">>,
      <<"2", " ", "=", " ", "3">>,
      <<"a", " ", "b", " ", "=", " ", "3">>,
      <<"2", " ", "=", " ", "z">>,
      <<"x", " ", "=", " ", "z">>,
      <<"x", " ", "=", " ", "1", " ", "/", " ", "0">>,
      <<"x", " ", "=", " ", "2", " ", "+">>,
      <<"f", " ", "=", " ", "a", "b", "s">>,
      <<"x", " ", "=", " ", "5", " ", ">", " ", "3">>,
      <<"x", " ", "=", " ", "y", " ", "=", " ", "3">>,
      <<"m", "a", "x", " ", "=", " ", "1">>,
      <<"y", " ", "=", " ", "x", " ", ">", "=", " ", "3">>,
      <<"x", " ", "=", "=", " ", "5", " ", "=", " ", "3">>,
      <<" ", "x", " ", "=", " ", "5", " ">>,
      <<"x", "=", "5">>,
      <<"d", "e", "f", " ", "=", " ", "3">>,
      <<"x", " ", "=", " ", "-", "0", ".", "0">>,
      <<"d", "e", "f", " ", "f", "(", "x", ")", ":", " ", "x">>,
      <<"d", "e", "f", " ", "f", "(", "x", ")", ":", " ", "x", " ", "=", " ", "1">>,
      <<"d", "e", "f">>,
      <<"d", "e", "f", "i", "n", "e">>,
      <<"x">>,
      <<"y">>,
      <<"z">>,
      <<"a", "b", "s">>,
      <<"m", "a", "x">>,
      <<"a", "b", "s", "(", "-", "2", ")">>,
      <<"a", "b", "s", "(", "x", ")">>,
      <<"a", "b", "s", "(", "2", ".", "5", ")">>,
      <<"a", "b", "s", "(", ")">>,
      <<"a", "b", "s", "(", "1", ",", " ", "2", ")">>,
      <<"a", "b", "s", "(", "a", "b", "s", ")">>,
      <<"m", "a", "x", "(", "1", ",", " ", "2", ")">>,
      <<"m", "a", "x", "(", "x", ",", " ", "7", ")">>,
      <<"m", "a", "x", "(", "1", ",", " ", "2", ".", "0", ")">>,
      <<"m", "i", "n", "(", "2", ",", " ", "1", ".", "0", ")">>,
      <<"m", "i", "n", "(", "x", ",", " ", "y", ")">>,
      <<"m", "a", "x", "(", "1", ")">>,
      <<"m", "a", "x", "(", ")">>,
      <<"m", "a", "x", "(", "a", "b", "s", ",", " ", "1", ")">>,
      <<"m", "i", "n", "(", "a", "b", "s", ",", " ", "1", ")">>,
      <<"z", "(", "1", ")">>,
      <<"x", "(", "1", ")">>,
      <<"(", "a", "b", "s", ")", "(", "1", ")">>,
      <<"a", "b", "s", "(", "1", ")", "(", "2", ")">>,
      <<"m", "a", "x", "(", "1", " ", "2", ")">>,
      <<"m", "a", "x", "(", "1", ",", " ", "2">>,
      <<"m", "a", "x", " ", "1">>,
      <<"a", "b", "s", "(", "z", ")">>,
      <<"7", " ", "-", " ", "2", " ", "*", " ", "3">>,
      <<"(", "7", " ", "-", " ", "2", ")", " ", "*", " ", "3">>,
      <<"1", "0", " ", "/", " ", "4">>,
      <<"2", ".", "5", " ", "*", " ", "2">>,
      <<"2", "-", "-", "3">>,
      <<"-", "x">>,
      <<"+", "x">>,
      <<"-", "a", "b", "s">>,
      <<"0", "/", "-", "2">>,
      <<"1", "/", "0">>,
      <<"1", ".", "0", "/", "0">>,
      <<"x", "/", "0">>,
      <<"1", "/", "0", ".", "0">>,
      <<"x", " ", "=", "=", " ", "5">>,
      <<"x", " ", "!", "=", " ", "5">>,
      <<"x", " ", "<", "=", " ", "5">>,
      <<"x", " ", ">", "=", " ", "5">>,
      <<"x", " ", "<", " ", "5">>,
      <<"x", " ", ">", " ", "5">>,
      <<"1", " ", "<", " ", "2", " ", "<", " ", "3">>,
      <<"1", " ", ">", " ", "2", " ", ">", " ", "z">>,
      <<"1", " ", "<", " ", "2", " ", "<", " ", "z">>,
      <<"a", "b", "s", " ", "=", "=", " ", "1">>,
      <<"a", "b", "s", " ", "=", "=", " ", "a", "b", "s">>,
      <<"a", "b", "s", " ", "<", " ", "1">>,
      <<"1", " ", "<", " ", "a", "b", "s">>,
      <<"a", "b", "s", " ", "+", " ", "1">>,
      <<"T", "r", "u", "e">>,
      <<"T", "r", "u", "e", " ", "+", " ", "1">>,
      <<"1", " ", "=", "=", " ", "1", ".", "0">>,
      <<>>,
      <<" ", " ">>,
      <<"2", " ", "3">>,
      <<"2", " ", "+">>,
      <<"+">>,
      <<"(", "2">>,
      <<"2", ")">>,
      <<")">>,
      <<"(">>,
      <<"2", " ", "+", " ", ")">>,
      <<"(", "2", " ", "3", ")">>,
      <<"2", "x">>,
      <<"0", "5">>,
      <<"0", "0">>,
      <<"5", ".">>,
      <<".", "5">>,
      <<"x", " ", "y">>,
      <<"1", " ", "+", "*", " ", "2">>,
      <<"!">>,
      <<"x", " ", "!", " ", "5">>,
      <<"x", "=", "=">>,
      <<"2", " ", "+", " ", "3", " ", "4">> }

\* The operands and the operators of the generated binary expressions: a
\* variable, an undefined name, numbers, a built-in function.
EvaluatorOperands == {<<"x">>, <<"z">>, <<"2">>, <<"0">>, <<"a", "b", "s">>}

EvaluatorOperators ==
    {<<"+">>, <<"-">>, <<"*">>, <<"/">>, <<"<">>, <<">">>,
     <<"=", "=">>, <<"!", "=">>, <<"<", "=">>, <<">", "=">>}

EvaluatorBinary ==
    {a \o <<" ">> \o op \o <<" ">> \o b :
        a \in EvaluatorOperands, op \in EvaluatorOperators, b \in EvaluatorOperands}

\* The last message of a sequence of calls.
EvaluatorProbes == EvaluatorSetup \cup EvaluatorExamples \cup EvaluatorBinary

\* Messages for the scientific calculator: the usage example of the source,
\* numbers and arithmetic, texts eval() rejects, names, implicit
\* multiplication and function calls.
ScientificExamples ==
    { <<"s", "i", "n", "(", "p", "i", "/", "2", ")">>,
      <<"c", "o", "s", "(", "0", ")">>,
      <<"l", "o", "g", "(", "1", "0", "0", ")">>,
      <<"l", "n", "(", "e", ")">>,
      <<"s", "q", "r", "t", "(", "1", "6", ")">>,
      <<"f", "a", "c", "t", "o", "r", "i", "a", "l", "(", "5", ")">>,
      <<"p", "o", "w", "(", "2", ",", " ", "8", ")">>,
      <<"2", " ", "*", " ", "p", "i">>,
      <<"s", "i", "n", "(", "p", "i", "/", "4", ")", " ", "+", " ", "c", "o", "s", "(", "p", "i", "/", "4", ")">>,
      <<>>,
      <<" ">>,
      <<"0">>,
      <<"0", "0">>,
      <<"5">>,
      <<"5", ".", "5">>,
      <<"-", "5">>,
      <<"2", " ", "+", " ", "3">>,
      <<"2", " ", "+", " ", "3", " ", "*", " ", "4">>,
      <<"(", "2", " ", "+", " ", "3", ")", " ", "*", " ", "4">>,
      <<"1", "0", " ", "/", " ", "0">>,
      <<"1", "0", " ", "/", " ", "4">>,
      <<"1", "/", "3">>,
      <<"2", "/", "3">>,
      <<"1", "/", "8">>,
      <<"7", "/", "2">>,
      <<"0", "/", "-", "2">>,
      <<"-", "0", ".", "0">>,
      <<"0", ".", "1", "+", "0", ".", "2">>,
      <<"1", "/", "2", "0", "0", "0">>,
      <<"2", "0", "0", "0", "0", "/", "3">>,
      <<"1", " ", "<", " ", "2">>,
      <<"2", " ", "<", " ", "1">>,
      <<"1", " ", "<", " ", "2", " ", "<", " ", "3">>,
      <<"1", " ", "=", "=", " ", "1">>,
      <<"2", " ", "+">>,
      <<"3", " ", "4">>,
      <<"(">>,
      <<")">>,
      <<"2", ")">>,
      <<"(", "2">>,
      <<"x", "=", "5">>,
      <<"2", " ", "3", " ", "+">>,
      <<"x">>,
      <<"2", "x">>,
      <<"x", "2">>,
      <<"2", "(", "3", ")">>,
      <<"(", "2", ")", "(", "3", ")">>,
      <<"(", "2", ")", "3">>,
      <<"2", " ", "(", "3", " ", "+", " ", "1", ")">>,
      <<"p", "i">>,
      <<"e">>,
      <<"t", "a", "u">>,
      <<"i", "n", "f">>,
      <<"2", "p", "i">>,
      <<"a", "b", "s">>,
      <<"m", "a", "x", "(", "1", ",", "2", ")">>,
      <<"m", "i", "n", "(", "3", ")">>,
      <<"m", "a", "x", "(", ")">>,
      <<"m", "a", "x", "(", "1", ",", " ", "2", ".", "5", ")">>,
      <<"s", "i", "n">>,
      <<"s", "i", "n", "(", ")">>,
      <<"s", "i", "n", "(", "x", ")">>,
      <<"s", "i", "n", "(", "1", "/", "0", ")">>,
      <<"s", "q", "r", "t", "(", "s", "q", "r", "t", "(", "1", "6", ")", ")">>,
      <<"s", "q", "r", "t", "(", "(", "1", "6", ")", ")">>,
      <<"s", "q", "r", "t", "(", "1", "6">>,
      <<"c", "o", "s", "(", "s", "i", "n", "(", "0", ")", ")">>,
      <<"s", "i", "n", "(", "c", "o", "s", "(", "0", ")", ")">>,
      <<"s", "q", "r", "t", "(", "4", ")", "+", "s", "q", "r", "t", "(", "9", ")">>,
      <<"2", "s", "q", "r", "t", "(", "4", ")">>,
      <<"s", "q", "r", "t", "(", "4", ")", "2">>,
      <<"s", "q", "r", "t", "(", "4", ")", "s", "q", "r", "t", "(", "9", ")">>,
      <<"s", "q", "r", "t", "(", "1", "6", ")", "/", "0">>,
      <<"s", "q", "r", "t", "(", "4", ")", "(", "2", ")">>,
      <<"a", "b", "s", "(", "-", "3", ")">>,
      <<"a", "b", "s", "(", "-", "2", ".", "5", ")">>,
      <<"f", "a", "c", "t", "o", "r", "i", "a", "l", "(", "2", ".", "5", ")">>,
      <<"f", "a", "c", "t", "o", "r", "i", "a", "l", "(", "1", "2", ")">>,
      <<"f", "l", "o", "o", "r", "(", "2", ".", "5", ")">>,
      <<"f", "l", "o", "o", "r", "(", "-", "2", ".", "5", ")">>,
      <<"f", "l", "o", "o", "r", "(", "7", "/", "2", ")">>,
      <<"s", "q", "r", "t", "(", "2", ".", "2", "5", ")">>,
      <<"s", "q", "r", "t", "(", "1", "0", "0", ")">>,
      <<"s", "q", "r", "t", "(", "0", ")">>,
      <<"s", "q", "r", "t", "(", "2", ")">>,
      <<"a", "s", "i", "n", "(", "s", "i", "n", "(", "0", ")", ")">>,
      <<"c", "o", "s", "(", "p", "i", ")">>,
      <<"-", "p", "i">>,
      <<"p", "i", "/", "2">>,
      <<"-", "s", "i", "n", "(", "1", ")">>,
      <<"p", "o", "w", "(", "2", ",", " ", "0", ")">>,
      <<"S", "I", "N", "(", "0", ")">>,
      <<"s", "i", "n", " ", "(", "0", ")">>,
      <<"s", "i", "n", "(", "0", ")", " ", "x">>,
      <<"a", "t", "a", "n", "(", "1">>,
      <<"1", " ", "+", " ", "a", "s", "i", "n", "(", "2", ")">> }

\* The arguments every function of the table is called with.
ScientificArguments ==
    { <<"0">>,
      <<"1">>,
      <<"2">>,
      <<"-", "1">>,
      <<"x">>,
      <<"1", "/", "0">>,
      <<"(", "1", ")">> }

\* The call func(arg) for every function of the table.
ScientificCalls ==
    {FunctionTable[i] \o <<"(">> \o a \o <<")">> :
        i \in 1..Len(FunctionTable), a \in ScientificArguments}

ScientificMessages == ScientificExamples \cup ScientificCalls

\* The messages of a later call on the same instance.
ScientificRepeats ==
    {<<"2", " ", "+", " ", "3">>, <<"1", "0", " ", "/", " ", "0">>,
     <<"s", "q", "r", "t", "(", "1", "6", ")">>, <<>>}

(***************************************************************************)
(* The state: one plugin instance and its last call.                       *)
(***************************************************************************)
VARIABLES
    plugin,     \* the class of the instance: "basic", "evaluator", "scientific",
                \* "first" (MyFirstPlugin), "tracker" (ConversationTrackerPlugin)
    message,    \* context.message of the last call
    ret,        \* the string the last call returned, <<>> before the first call
    pos,        \* BasicCalculatorPlugin.pos, -1 while the attribute is not set
    expr,       \* BasicCalculatorPlugin.expr, <<>> while the attribute is not set
    trail,      \* what the last call of the basic calculator did to pos, in order
    variables,  \* ExpressionEvaluatorPlugin.variables
    history,    \* ExpressionEvaluatorPlugin.history
    recorded,   \* every entry _add_to_history was called with, oldest first
    cleared,    \* how many of them were recorded before the last ?clear
    calls,      \* the calls made on the instance (not counted for the basic and
                \* the scientific calculator)
    memory,     \* the memory behind context.recall and context.remember: the
                \* value last stored under each key that was ever stored
    accesses,   \* the recall and remember calls of the last execution, in order
    stage       \* context.current_stage_name of the last execution

vars == <<plugin, message, ret, pos, expr, trail, variables, history, recorded, cleared, calls,
          memory, accesses, stage>>

\* What the plugins that use the memory of the context read and write.
memoryVars == <<memory, accesses, stage>>

\* The attributes of the evaluator and what is kept about its calls.
evaluatorVars == <<variables, history, recorded, cleared, calls>>

\* A BasicCalculatorPlugin after __init__: pos and expr are first assigned
\* by _evaluate_expression.
InitBasic ==
    /\ plugin = "basic"
    /\ message = <<>>
    /\ ret = <<>>
    /\ pos = -1
    /\ expr = <<>>
    /\ trail = <<>>
    /\ memory = <<>>
    /\ accesses = <<>>
    /\ stage = ""
    /\ variables = <<>>
    /\ history = <<>>
    /\ recorded = <<>>
    /\ cleared = 0
    /\ calls = 0

\* One call of BasicCalculatorPlugin._execute_impl.
BasicCall ==
    /\ plugin = "basic"
    /\ \E msg \in (IF ret = <<>> THEN Messages ELSE Repeats) :
          LET Return(r) == /\ message' = msg
                           /\ ret' = r.ret
                           /\ pos' = r.pos
                           /\ trail' = r.trail
                           /\ expr' = r.expr
          IN  Return(BasicExecuteImpl(msg, pos, expr))
    /\ UNCHANGED <<plugin, evaluatorVars, memoryVars>>

NextBasic == BasicCall

SpecBasic == InitBasic /\ [][NextBasic]_vars

\* An ExpressionEvaluatorPlugin after __init__.
InitEvaluator ==
    /\ plugin = "evaluator"
    /\ message = <<>>
    /\ ret = <<>>
    /\ pos = -1
    /\ expr = <<>>
    /\ trail = <<>>
    /\ memory = <<>>
    /\ accesses = <<>>
    /\ stage = ""
    /\ variables = <<>>
    /\ history = <<>>
    /\ recorded = <<>>
    /\ cleared = 0
    /\ calls = 0

\* What a call with message msg does to the evaluator.
EvaluatorStep(msg) ==
    LET Return(r) ==
            /\ message' = msg
            /\ ret' = r.ret
            /\ variables' = r.variables
            /\ history' = r.history
            /\ recorded' = recorded \o r.added
            /\ cleared' = IF r.cleared THEN Len(recorded) ELSE cleared
    IN  Return(EvaluatorExecuteImpl(msg, variables, history))

\* One call of ExpressionEvaluatorPlugin._execute_impl: the calls before
\* the last one build up variables and history.
EvaluatorCall ==
    /\ plugin = "evaluator"
    /\ calls < MaxCalls
    /\ \E msg \in (IF calls < MaxCalls - 1 THEN EvaluatorSetup ELSE EvaluatorProbes) :
          EvaluatorStep(msg)
    /\ calls' = calls + 1
    /\ UNCHANGED <<plugin, pos, expr, trail, memoryVars>>

NextEvaluator == EvaluatorCall

SpecEvaluator == InitEvaluator /\ [][NextEvaluator]_vars

\* The k-th message of a long sequence of evaluations, each of which
\* records one entry: an expression, the same expression once more, an
\* assignment, an expression that fails, the same expression once more.
Script(k) ==
    CASE k % 5 = 1 -> NatChars(k) \o <<" ", "+", " ", "1">>
      [] k % 5 = 2 -> NatChars(k - 1) \o <<" ", "+", " ", "1">>
      [] k % 5 = 3 -> <<"x", " ", "=", " ">> \o NatChars(k)
      [] k % 5 = 4 -> NatChars(k) \o <<" ", "/", " ", "0">>
      [] k % 5 = 0 -> NatChars(k - 1) \o <<" ", "/", " ", "0">>

\* One call of a long sequence on one instance: the next evaluation, or
\* at any point ?clear or ?history.
HistoryCall ==
    /\ plugin = "evaluator"
    /\ Len(recorded) < MaxEvaluations
    /\ \E msg \in {Script(Len(recorded) + 1),
                    <<"?", "c", "l", "e", "a", "r">>,
                    <<"?", "h", "i", "s", "t", "o", "r", "y">>} :
          EvaluatorStep(msg)
    /\ UNCHANGED <<plugin, pos, expr, trail, calls, memoryVars>>

NextHistory == HistoryCall

SpecHistory == InitEvaluator /\ [][NextHistory]_vars

\* A ScientificCalculatorPlugin after __init__: its functions and constants
\* are never assigned again.
InitScientific ==
    /\ plugin = "scientific"
    /\ message = <<>>
    /\ ret = <<>>
    /\ pos = -1
    /\ expr = <<>>
    /\ trail = <<>>
    /\ memory = <<>>
    /\ accesses = <<>>
    /\ stage = ""
    /\ variables = <<>>
    /\ history = <<>>
    /\ recorded = <<>>
    /\ cleared = 0
    /\ calls = 0

\* One call of ScientificCalculatorPlugin._execute_impl.
ScientificCall ==
    /\ plugin = "scientific"
    /\ \E msg \in (IF ret = <<>> THEN ScientificMessages ELSE ScientificRepeats) :
          /\ message' = msg
          /\ ret' = ScientificExecuteImpl(msg)
    /\ UNCHANGED <<plugin, pos, expr, trail, evaluatorVars, memoryVars>>

NextScientific == ScientificCall

SpecScientific == InitScientific /\ [][NextScientific]_vars

\* The messages of the executions of MyFirstPlugin: None or "" (both read as
\* ""), and two texts.
FirstMessages == {<<>>, <<"h", "i">>, <<"T", "e", "s", "t", " ", "m", "e", "s", "s", "a", "g", "e">>}

\* A memory serves at most MaxVisits executions of MyFirstPlugin.
MaxVisits == 40

\* A fresh memory and a MyFirstPlugin.
InitFirstPlugin ==
    /\ plugin = "first"
    /\ message = <<>>
    /\ ret = <<>>
    /\ pos = -1
    /\ expr = <<>>
    /\ trail = <<>>
    /\ variables = <<>>
    /\ history = <<>>
    /\ recorded = <<>>
    /\ cleared = 0
    /\ calls = 0
    /\ memory = <<>>
    /\ accesses = <<>>
    /\ stage = ""

\* One execution of MyFirstPlugin._execute_impl (at the THINK stage), the
\* executions following one another.
FirstPluginCall ==
    /\ plugin = "first"
    /\ calls < MaxVisits
    /\ \E msg \in FirstMessages :
          LET Return(r) == /\ message' = msg
                           /\ ret' = r.ret
                           /\ memory' = r.memory
                           /\ accesses' = r.accesses
          IN  Return(MyFirstPluginExecuteImpl(msg, memory))
    /\ stage' = "THINK"
    /\ calls' = calls + 1
    /\ UNCHANGED <<plugin, pos, expr, trail, variables, history, recorded, cleared>>

NextFirstPlugin == FirstPluginCall

SpecFirstPlugin == InitFirstPlugin /\ [][NextFirstPlugin]_vars

\* The messages of the executions of ConversationTrackerPlugin.
TrackerMessages == {<<>>, <<"H", "e", "l", "l", "o", "!">>}

\* A memory serves at most MaxExecutions executions of the tracker, the
\* stored turns change speaker at most MaxSwitches times and hold at most
\* MaxEmpty empty messages.
MaxExecutions == 24

MaxSwitches == 2

MaxEmpty == 1

\* The places of h where the speaker changes.
Switches(h) == Cardinality({i \in 1..(Len(h) - 1) : h[i].speaker # h[i + 1].speaker})

Empties(h) == Cardinality({i \in 1..Len(h) : h[i].message = ""})

\* A fresh memory and a ConversationTrackerPlugin.
InitTracker ==
    /\ plugin = "tracker"
    /\ message = <<>>
    /\ ret = <<>>
    /\ pos = -1
    /\ expr = <<>>
    /\ trail = <<>>
    /\ variables = <<>>
    /\ history = <<>>
    /\ recorded = <<>>
    /\ cleared = 0
    /\ calls = 0
    /\ memory = <<>>
    /\ accesses = <<>>
    /\ stage = ""

\* One execution of ConversationTrackerPlugin._execute_impl at one of its
\* supported stages, the executions following one another; time.time()
\* returns a later time at each execution.
TrackerCall ==
    /\ plugin = "tracker"
    /\ calls < MaxExecutions
    /\ \E msg \in TrackerMessages, stage_name \in {"INPUT", "OUTPUT"} :
          LET Return(r) == /\ Switches(r.memory["conversation_history"]) <= MaxSwitches
                           /\ Empties(r.memory["conversation_history"]) <= MaxEmpty
                           /\ message' = msg
                           /\ stage' = stage_name
                           /\ ret' = r.ret
                           /\ memory' = r.memory
                           /\ accesses' = r.accesses
          IN  Return(ConversationTrackerExecuteImpl(msg, stage_name, memory, calls + 1))
    /\ calls' = calls + 1
    /\ UNCHANGED <<plugin, pos, expr, trail, variables, history, recorded, cleared>>

NextTracker == TrackerCall

SpecTracker == InitTracker /\ [][NextTracker]_vars

\* An instance of one of the three calculators and the calls made on it.
Init == InitBasic \/ InitEvaluator \/ InitScientific

Next == BasicCall \/ EvaluatorCall \/ ScientificCall

Spec == Init /\ [][Next]_vars

(***************************************************************************)
(* The standard reading of an expression, for the claims about the basic   *)
(* calculator: an expression with a binary '+' or '-' outside parentheses  *)
(* is split at the last one, otherwise at the last '*' or '/' outside      *)
(* parentheses; what is left is a signed factor, a parenthesised           *)
(* expression or a number  digit+ ('.' digit+)?.                           *)
(* Reading(e) is [def, val, dz]: whether e is well formed, its value, and  *)
(* whether a division by zero occurs in it.                                *)
(***************************************************************************)
Undefined == [def |-> FALSE, val |-> NaN, dz |-> FALSE]

RECURSIVE DepthAt(_, _)
\* The number of parentheses open before position i of e.
DepthAt(e, i) ==
    IF i <= 1 THEN 0
    ELSE DepthAt(e, i - 1) + (IF e[i - 1] = "(" THEN 1
                              ELSE IF e[i - 1] = ")" THEN -1 ELSE 0)

\* The positions of the binary operators of ops outside parentheses.
TopLevel(e, ops) ==
    {i \in 2..Len(e) : /\ e[i] \in ops
                       /\ e[i - 1] \in Digits \cup {")"}
                       /\ DepthAt(e, i) = 0}

Last(S) == CHOOSE i \in S : \A j \in S : j <= i

\* number := digit+ ('.' digit+)?
IsNumber(e) ==
    /\ e # <<>>
    /\ \A i \in 1..Len(e) : e[i] \in Digits \cup {"."}
    /\ Cardinality({i \in 1..Len(e) : e[i] = "."}) <= 1
    /\ e[1] # "."
    /\ e[Len(e)] # "."

RECURSIVE Reading(_)
Reading(e) ==
    LET adds == TopLevel(e, {"+", "-"})
        muls == TopLevel(e, {"*", "/"})
        i == Last(IF adds # {} THEN adds ELSE muls)
        l == Reading(SubSeq(e, 1, i - 1))
        r == Reading(SubSeq(e, i + 1, Len(e)))
        t == Reading(Tail(e))
    IN  IF e = <<>> THEN Undefined
        ELSE IF adds # {} \/ muls # {}
             THEN IF l.def /\ r.def
                  THEN [def |-> TRUE, val |-> Operations(e[i], l.val, r.val),
                        dz |-> l.dz \/ r.dz \/ (e[i] = "/" /\ IsZero(r.val))]
                  ELSE Undefined
        ELSE IF e[1] = "-"
             THEN (IF t.def THEN [t EXCEPT !.val = FNeg(t.val)] ELSE Undefined)
        ELSE IF e[1] = "+" THEN t
        ELSE IF e[1] = "(" /\ e[Len(e)] = ")"
             THEN Reading(SubSeq(e, 2, Len(e) - 1))
        ELSE IF IsNumber(e) THEN [def |-> TRUE, val |-> ToFloat(e).val, dz |-> FALSE]
        ELSE Undefined

\* The message of the last call with its whitespace removed.
Text == RemoveWhitespace(message)

BasicCalled == plugin = "basic" /\ ret # <<>>

(***************************************************************************)
(* C1: for every well-formed expression over numbers, + - * / and          *)
(* parentheses, the basic calculator returns the value of its standard     *)
(* reading: * and / bind tighter than + and -, and a parenthesised         *)
(* sub-expression is evaluated as a unit; "2 + 3 * 4" gives 14.0 and       *)
(* "(2 + 3) * 4" gives 20.0.                                               *)
(***************************************************************************)
C1_Precedence ==
    BasicCalled =>
        /\ Reading(Text).def => ret = <<"Result: ", FloatStr(Reading(Text).val)>>
        /\ Text = <<"2", "+", "3", "*", "4">> => Flat(ret) = "Result: 14.0"
        /\ Text = <<"(", "2", "+", "3", ")", "*", "4">> => Flat(ret) = "Result: 20.0"

\* The parenthesised example has been evaluated to 20.0.
C1_Witness ==
    /\ BasicCalled
    /\ message = <<"(", "2", " ", "+", " ", "3", ")", " ", "*", " ", "4">>
    /\ Flat(ret) = "Result: 20.0"

(***************************************************************************)
(* C2: binary operators of equal precedence are left-associative in the    *)
(* basic calculator: for number literals a, b, c and operators o1, o2 of   *)
(* one level, "a o1 b o2 c" is (a o1 b) o2 c; "10 - 2 - 3" gives 5.0.      *)
(***************************************************************************)
SameLevel(o1, o2) == {o1, o2} \subseteq {"+", "-"} \/ {o1, o2} \subseteq {"*", "/"}

C2_LeftAssociative ==
    BasicCalled =>
        /\ \A i \in 1..Len(Text) : \A j \in (i + 1)..Len(Text) :
              LET a == SubSeq(Text, 1, i - 1)
                  b == SubSeq(Text, i + 1, j - 1)
                  c == SubSeq(Text, j + 1, Len(Text))
              IN  SameLevel(Text[i], Text[j]) /\ IsNumber(a) /\ IsNumber(b) /\ IsNumber(c)
                  => ret = <<"Result: ",
                             FloatStr(Operations(Text[j],
                                                 Operations(Text[i], ToFloat(a).val,
                                                            ToFloat(b).val),
                                                 ToFloat(c).val))>>
        /\ Text = <<"1", "0", "-", "2", "-", "3">> => Flat(ret) = "Result: 5.0"

\* The subtraction example has been evaluated to 5.0.
C2_Witness ==
    /\ BasicCalled
    /\ message = <<"1", "0", " ", "-", " ", "2", " ", "-", " ", "3">>
    /\ Flat(ret) = "Result: 5.0"

(***************************************************************************)
(* C3: a message in which two number literals are separated only by        *)
(* whitespace fails with the trailing-characters error and produces no     *)
(* Result.  (The code removes all whitespace before it parses, so the two  *)
(* literals become one number.)                                            *)
(***************************************************************************)
TwoNumbersApart(m) ==
    \E i \in 1..Len(m) : \E j \in (i + 2)..Len(m) :
        /\ m[i] \in Digits
        /\ m[j] \in Digits
        /\ \A k \in (i + 1)..(j - 1) : m[k] \in Whitespace

C3_TrailingNumber ==
    BasicCalled /\ TwoNumbersApart(message)
        => Flat(ret) = "Calculator Error: Unexpected characters at end of expression"

(***************************************************************************)
(* C4: a message over the calculator's characters that lacks one ')' to be *)
(* well formed fails with "Missing closing parenthesis"; a message in      *)
(* which a ')' follows a complete expression and closes no parenthesis     *)
(* fails with the trailing-characters error.                               *)
(***************************************************************************)
WellFormed(e) == Reading(e).def

LacksClosing(e) ==
    /\ ~WellFormed(e)
    /\ \E k \in 2..(Len(e) + 1) : WellFormed(InsertAt(e, k, ")"))

StrayClosing(e) ==
    /\ \A i \in 1..Len(e) : e[i] \in Allowed
    /\ \E k \in 2..Len(e) : e[k] = ")" /\ WellFormed(SubSeq(e, 1, k - 1))

HasInvalidCharacter(m) ==
    \E i \in 1..Len(m) : m[i] \notin Allowed \cup Whitespace

C5_InvalidCharacters ==
    [][plugin' = "basic" /\ HasInvalidCharacter(message')
          => /\ Flat(ret') = "Calculator Error: Invalid characters in expression"
             /\ pos' = pos
             /\ expr' = expr]_vars

\* A message with letters was rejected on an instance whose parser had
\* stopped in the middle of an earlier expression.
C5_Witness ==
    /\ BasicCalled
    /\ HasInvalidCharacter(message)
    /\ Flat(ret) = "Calculator Error: Invalid characters in expression"
    /\ expr = <<"(", "2", "+", "3">>
    /\ pos = 4

(***************************************************************************)
(* C6: for every message, _execute_impl of each of the three calculators   *)
(* returns a string, and a message that is not evaluated successfully is   *)
(* answered with a string that begins with a label of that calculator:     *)
(* "Calculator Error:" (basic), "Scientific Calculator Error:"             *)
(* (scientific) and, for the extended evaluator, "Evaluation Error:" (an   *)
(* expression that fails), "Assignment Error:" (an assignment whose right  *)
(* side fails) or "Error:" (no expression, an invalid variable name, a     *)
(* function definition).                                                   *)
(***************************************************************************)
\* A call has returned.
Called == ret # <<>>

\* What the answer to a message that was evaluated, or to a help command,
\* begins with.
Answers ==
    IF plugin = "evaluator"
    THEN {"Result: ", "Set ", "Variables: ", "No variables defined",
          "Available functions: ", "Recent calculations:\n",
          "No calculation history", "Cleared variables and history", HelpText}
    ELSE {"Result: "}

\* The labels the calculators put before str(e).
ErrorLabels ==
    CASE plugin = "basic" -> {"Calculator Error: "}
      [] plugin = "scientific" -> {"Scientific Calculator Error: "}
      [] plugin = "evaluator" -> {"Evaluation Error: ", "Assignment Error: ", "Error: "}

\* The one label the specification names for each calculator.
CategoryLabel ==
    CASE plugin = "basic" -> "Calculator Error: "
      [] plugin = "scientific" -> "Scientific Calculator Error: "
      [] plugin = "evaluator" -> "Evaluation Error: "

\* The basic calculator rejects the characters of msg or fails to parse it.
BasicFails(msg) ==
    LET c == CleanExpression(BasicExpression(msg))
    IN  ~c.ok \/ ~EvaluateExpression(c.text).ok

\* The scientific calculator fails to evaluate msg.
ScientificFails(msg) ==
    ~EvaluateScientificExpression(Strip(IF msg = <<>> THEN <<"0">> ELSE msg)).ok

\* The extended evaluator, its variables being vs, has no expression in msg
\* or fails to evaluate it: the right side of an assignment, the whole text
\* otherwise.
EvaluatorFails(msg, vs) ==
    LET e == Strip(msg)
    IN  \/ e = <<>>
        \/ /\ Head(e) # "?"
           /\ ~SafeEval(IF IsAssignment(e)
                         THEN Strip(SubSeq(e, Find(e, "=") + 1, Len(e)))
                         ELSE e, vs).ok

C6_ErrorsLabelled ==
    /\ [](Called =>
            /\ \A i \in 1..Len(ret) : ret[i] \in STRING
            /\ Head(ret) \in Answers \cup ErrorLabels
            /\ plugin = "basic" /\ BasicFails(message) => Head(ret) \in ErrorLabels
            /\ plugin = "scientific" /\ ScientificFails(message)
                    => Head(ret) \in ErrorLabels)
    /\ [][plugin = "evaluator" /\ EvaluatorFails(message', variables)
              => Head(ret') \in ErrorLabels]_vars

\* The original statement: the extended evaluator has the one label
\* "Evaluation Error:".
C6_CategoryLabels ==
    Called /\ Head(ret) \notin Answers => Head(ret) = CategoryLabel

\* An assignment whose right side divides by zero has been answered with
\* the label of _handle_assignment.
C6_Witness ==
    /\ plugin = "evaluator"
    /\ Called
    /\ IsAssignment(Strip(message))
    /\ Head(ret) = "Assignment Error: "
    /\ ret[2] = "Cannot parse expression: division by zero"

(***************************************************************************)
(* C7: a division by zero is not an error in the basic calculator: a       *)
(* well-formed expression that is a division with a zero divisor returns   *)
(* "Result: inf" whatever the dividend, and a well-formed expression in    *)
(* which a division by zero occurs returns a Result.                       *)
(***************************************************************************)
\* e is "l / r" with r evaluating to zero: the reading of l, else Undefined.
ZeroDivisionDividend(e) ==
    LET muls == TopLevel(e, {"*", "/"})
        i == Last(muls)
        l == Reading(SubSeq(e, 1, i - 1))
        r == Reading(SubSeq(e, i + 1, Len(e)))
    IN  IF /\ TopLevel(e, {"+", "-"}) = {}
           /\ muls # {}
           /\ e[i] = "/"
           /\ l.def /\ r.def /\ IsZero(r.val)
        THEN l ELSE Undefined

C7_DivisionByZero ==
    BasicCalled =>
        /\ ZeroDivisionDividend(Text).def => Flat(ret) = "Result: inf"
        /\ Reading(Text).def /\ Reading(Text).dz => Head(ret) = "Result: "
        /\ Text = <<"1", "0", "/", "0">> => Flat(ret) = "Result: inf"

\* A negative dividend has been divided by zero.
C7_Witness ==
    /\ BasicCalled
    /\ ZeroDivisionDividend(Text).def
    /\ IsFinite(ZeroDivisionDividend(Text).val)
    /\ ZeroDivisionDividend(Text).val[1] < 0
    /\ Flat(ret) = "Result: inf"

(***************************************************************************)
(* C8: dividing a negated operand by zero yields negative infinity in the  *)
(* basic calculator: "-10/0" evaluates to negative infinity.               *)
(***************************************************************************)
C8_NegativeInfinity ==
    BasicCalled =>
        /\ Text = <<"-", "1", "0", "/", "0">> => Flat(ret) = "Result: -inf"
        /\ \A n \in Leaves :
              Text = <<"-">> \o n \o <<"/", "0">> /\ ~IsZero(ToFloat(n).val)
                  => Flat(ret) = "Result: -inf"

(***************************************************************************)
(* C9: in the extended evaluator a variable set by a successful            *)
(* assignment keeps its value in every later call on the instance until it *)
(* is reassigned or ?clear empties the variables; the sequence "x = 5",    *)
(* "y = x * 2", "x + y" ends with the result 15.0.                         *)
(***************************************************************************)
EvaluatorCalled == plugin = "evaluator" /\ ret # <<>>

\* The call that leads to the next state has answered "Set name = ...".
Reassigns(name) == Head(ret') = "Set " /\ ret'[2] = name

\* The call that leads to the next state was ?clear.
Clears == Join(Lower(Strip(message'))) = "?clear"

\* The three calls of the example were the last three that recorded an
\* entry, with no ?clear between them, and "x + y" was the last call.
ExampleSequenceDone ==
    LET n == Len(recorded)
    IN  /\ EvaluatorCalled
        /\ n >= 3
        /\ cleared <= n - 3
        /\ recorded[n - 2].expr = "x = 5"
        /\ recorded[n - 1].expr = "y = x * 2"
        /\ recorded[n].expr = "x + y"
        /\ message = <<"x", " ", "+", " ", "y">>

C9_VariablesPersist ==
    /\ [][plugin' = "evaluator" =>
            \A i \in 1..Len(variables) :
                ~Reassigns(variables[i].k) /\ ~Clears
                    => /\ HasVariable(variables', variables[i].k)
                       /\ Variable(variables', variables[i].k) = variables[i].v]_vars
    /\ [](ExampleSequenceDone => Flat(ret) = "Result: 15.0")

\* The original statement: until it is reassigned, whatever the call.
C9_PersistUntilReassigned ==
    /\ [][plugin' = "evaluator" =>
            \A i \in 1..Len(variables) :
                ~Reassigns(variables[i].k)
                    => /\ HasVariable(variables', variables[i].k)
                       /\ Variable(variables', variables[i].k) = variables[i].v]_vars
    /\ [](ExampleSequenceDone => Flat(ret) = "Result: 15.0")

\* The example sequence has been evaluated: x and y are still set and the
\* result is 15.0.
C9_Witness ==
    /\ ExampleSequenceDone
    /\ HasVariable(variables, "x") /\ Variable(variables, "x") = <<5, 1>>
    /\ HasVariable(variables, "y") /\ Variable(variables, "y") = <<10, 1>>
    /\ Flat(ret) = "Result: 15.0"

(***************************************************************************)
(* C10: the history of an extended-evaluator instance never holds more     *)
(* than 50 entries, and it holds, in recording order, the entries recorded *)
(* since the last ?clear, or the 50 most recent of them once there are     *)
(* more than 50; after 60 evaluations without a ?clear it holds the        *)
(* entries of evaluations 11 to 60.                                        *)
(***************************************************************************)
\* The last n elements of s, all of s when it is shorter.
LastOf(s, n) == IF Len(s) > n THEN SubSeq(s, Len(s) - n + 1, Len(s)) ELSE s

SinceClear == SubSeq(recorded, cleared + 1, Len(recorded))

C10_HistoryBound ==
    plugin = "evaluator" =>
        /\ Len(history) <= 50
        /\ history = LastOf(SinceClear, 50)
        /\ Len(recorded) = 60 /\ cleared = 0 => history = SubSeq(recorded, 11, 60)

\* The original statement: the 50 most recent of all entries ever recorded.
C10_FiftyMostRecent ==
    plugin = "evaluator" =>
        /\ Len(history) <= 50
        /\ Len(recorded) > 50 => history = LastOf(recorded, 50)

\* Sixty evaluations have been recorded without a ?clear and the first ten
\* are gone.
C10_Witness ==
    /\ plugin = "evaluator"
    /\ Len(recorded) = 60
    /\ cleared = 0
    /\ Len(history) = 50
    /\ history[1] = recorded[11]
    /\ history[50] = recorded[60]

(***************************************************************************)
(* C11: in the extended evaluator, evaluating the same assignment-free     *)
(* arithmetic expression twice in a row on one instance returns the same   *)
(* string both times, leaves the variables unchanged and records exactly   *)
(* one entry per evaluation: the history grows by that entry, and once it  *)
(* holds 50 entries its oldest entry makes room for it.                    *)
(***************************************************************************)
\* msg is an expression without assignment: not empty, not a help command,
\* not a 'def' input and without '='.
PlainExpression(msg) ==
    /\ Strip(msg) # <<>>
    /\ Head(Strip(msg)) # "?"
    /\ \A i \in 1..Len(msg) : msg[i] # "="
    /\ ~StartsWith(Strip(msg), <<"d", "e", "f", " ">>)

\* The call that leads to the next state evaluates the expression that the
\* call before it evaluated.
EvaluatedAgain ==
    /\ plugin = "evaluator"
    /\ ret # <<>>
    /\ message' = message
    /\ PlainExpression(message)

C11_RepeatedEvaluation ==
    [][EvaluatedAgain =>
          /\ ret' = ret
          /\ variables' = variables
          /\ Len(recorded') = Len(recorded) + 1
          /\ recorded'[Len(recorded')].expr = Join(Strip(message))
          /\ history' = LastOf(Append(history, recorded'[Len(recorded')]), 50)]_vars

\* The original statement: the history is one entry longer after every
\* evaluation.
C11_HistoryGrowsByOne ==
    [][EvaluatedAgain =>
          /\ ret' = ret
          /\ variables' = variables
          /\ Len(history') = Len(history) + 1]_vars

\* An expression has been evaluated twice in a row with the same result,
\* the second time on a history that was full.
C11_Witness ==
    /\ plugin = "evaluator"
    /\ PlainExpression(message)
    /\ Len(recorded) = 52
    /\ cleared = 0
    /\ recorded[52].expr = Join(Strip(message))
    /\ recorded[51] = recorded[52]
    /\ Head(ret) = "Result: "
    /\ Len(history) = 50
    /\ history[49] = history[50]

(***************************************************************************)
(* C12: in the extended evaluator the variables are changed only by an     *)
(* explicit assignment "name = expr" that succeeds and by the ?clear       *)
(* command: every other input (an expression, every other help command, a  *)
(* 'def' input, an input that ends in an error) leaves them as they were.  *)
(***************************************************************************)
\* The call that leads to the next state is a successful assignment
\* "name = expr".
Assigns ==
    /\ \E i \in 1..Len(message') : message'[i] = "="
    /\ Head(ret') = "Set "

C12_EnvironmentFrame ==
    [][plugin' = "evaluator" /\ ~Assigns /\ ~Clears => variables' = variables]_vars

\* The original statement: only an assignment changes the variables.
C12_OnlyAssignment ==
    [][plugin' = "evaluator" /\ ~Assigns => variables' = variables]_vars

\* A 'def' input, a help command other than ?clear or an input that ended
\* in an error was the last call, on an instance that holds variables.
C12_Witness ==
    /\ plugin = "evaluator"
    /\ variables # <<>>
    /\ calls = MaxCalls
    /\ \/ Head(ret) \in {"Evaluation Error: ", "Assignment Error: ", "Variables: "}
       \/ StartsWith(Strip(message), <<"d", "e", "f", " ">>)


\* ------------------------------------------------------------------
\* C13: resolution of identifiers by the extended evaluator.

\* The message is one identifier and nothing else.
BareName(msg) ==
    /\ IsIdentifier(Strip(msg))
    /\ Join(Strip(msg)) \notin Keywords \cup {"True", "False", "None"}

\* The message is one call "name(arguments)" with no inner parenthesis.
CallShape(msg) ==
    LET e == Strip(msg)
        at == Find(e, "(")
    IN  /\ at > 1
        /\ e[Len(e)] = ")"
        /\ IsIdentifier(SubSeq(e, 1, at - 1))
        /\ \A i \in (at + 1)..(Len(e) - 1) : e[i] \notin {"(", ")"}

CalleeChars(msg) == LET e == Strip(msg) IN SubSeq(e, 1, Find(e, "(") - 1)

CalleeOf(msg) == Join(CalleeChars(msg))

ArgumentsOf(msg) == LET e == Strip(msg) IN SubSeq(e, Find(e, "(") + 1, Len(e) - 1)

Without(vs, name) == SelectSeq(vs, LAMBDA b : b.k # name)

Bound(vs, name) == \E i \in 1..Len(vs) : vs[i].k = name

BoundValue(vs, name) == vs[CHOOSE i \in 1..Len(vs) : vs[i].k = name].v

BuiltIn == {"abs", "max", "min", "sum", "len", "pow", "round"}

NameError(kind, name) ==
    <<"Evaluation Error: ",
      "Cannot parse expression: " \o kind \o " '" \o name \o "' is not defined">>

\* C13 (as the code has it): a bare name is resolved against the environment
\* first and against the built-in function table only when no variable of
\* that name exists, and a name found in neither is an error "Name '...' is
\* not defined"; the callee of a call is resolved against the built-in
\* function table alone, whatever the environment holds under that name, and
\* a callee that is not in the table is an error "Function '...' is not
\* defined".
C13_Resolution ==
    [][plugin' = "evaluator" =>
          /\ BareName(message') =>
                LET n == Join(Strip(message'))
                IN  ret' = IF Bound(variables, n)
                             THEN <<"Result: ", FloatStr(BoundValue(variables, n))>>
                           ELSE IF n \in BuiltIn
                             THEN <<"Result: ", "<built-in function " \o n \o ">">>
                           ELSE NameError("Name", n)
          /\ CallShape(message') =>
                LET n == CalleeOf(message')
                IN  IF n \notin BuiltIn
                    THEN ret' = NameError("Function", n)
                    ELSE ~Contains(ArgumentsOf(message'), CalleeChars(message'))
                         => ret' = EvaluatorExecuteImpl(message', Without(variables, n),
                                                        history).ret]_vars

\* C13 (as stated): the callee of a call is resolved against the environment
\* first, so a call whose callee names a variable (a float, which cannot be
\* called) does not return the result of the built-in function of that name.
C13_EnvironmentFirst ==
    [][/\ plugin' = "evaluator"
       /\ CallShape(message')
       /\ Bound(variables, CalleeOf(message'))
       => Head(ret') # "Result: "]_vars

\* abs is a variable and "abs(-2)" was answered by the built-in function.
C13_Witness ==
    /\ plugin = "evaluator"
    /\ Bound(variables, "abs")
    /\ message = <<"a", "b", "s", "(", "-", "2", ")">>
    /\ ret = <<"Result: ", "2">>


\* ------------------------------------------------------------------
\* C14: the answer to an expression that uses an undefined name.

\* A name (no keyword, no constant) or a decimal number without sign.
IsNameOperand(s) ==
    IsIdentifier(s) /\ Join(s) \notin Keywords \cup {"True", "False", "None"}

IsNumberOperand(s) ==
    /\ s # <<>>
    /\ \A i \in 1..Len(s) : IsDigit(s[i])
    /\ Len(s) > 1 => s[1] # "0"

\* The operands of a message "a", or "a op b" with one arithmetic or
\* comparison operator between single spaces; the empty sequence for any
\* other message.
OperandsOf(msg) ==
    LET e == Strip(msg)
        Whole(s) == IsNameOperand(s) \/ IsNumberOperand(s)
        Splits == {p \in (1..Len(e)) \X (1..Len(e)) :
                      /\ p[1] < p[2]
                      /\ e[p[1]] = " " /\ e[p[2]] = " "
                      /\ SubSeq(e, p[1] + 1, p[2] - 1) \in EvaluatorOperators
                      /\ Whole(SubSeq(e, 1, p[1] - 1))
                      /\ Whole(SubSeq(e, p[2] + 1, Len(e)))}
    IN  IF Whole(e) THEN <<e>>
        ELSE IF Splits = {} THEN <<>>
        ELSE LET p == CHOOSE q \in Splits : TRUE
             IN  <<SubSeq(e, 1, p[1] - 1), SubSeq(e, p[2] + 1, Len(e))>>

\* The names among the operands that are neither a variable nor a built-in
\* function.
UndefinedNames(msg, vs) ==
    {Join(OperandsOf(msg)[i]) : i \in {j \in 1..Len(OperandsOf(msg)) :
        /\ IsNameOperand(OperandsOf(msg)[j])
        /\ ~Bound(vs, Join(OperandsOf(msg)[j]))
        /\ Join(OperandsOf(msg)[j]) \notin BuiltIn}}

UsesUndefined(msg, vs) == Cardinality(UndefinedNames(msg, vs)) = 1

TheUndefined(msg, vs) == CHOOSE y \in UndefinedNames(msg, vs) : TRUE

AssignmentShape(msg) ==
    LET e == Strip(msg)
    IN  /\ e # <<>>
        /\ Head(e) # "?"
        /\ \E i \in 1..Len(e) : e[i] = "="
        /\ \A i \in 1..(Len(e) - 1) :
              e[i + 1] = "=" => e[i] \notin {"=", "!", ">", "<"}

LeftSide(msg) == LET e == Strip(msg) IN Strip(SubSeq(e, 1, Find(e, "=") - 1))

RightSide(msg) == LET e == Strip(msg) IN Strip(SubSeq(e, Find(e, "=") + 1, Len(e)))

InvalidTarget(msg) == AssignmentShape(msg) /\ ~IsIdentifier(LeftSide(msg))

\* C15: an assignment whose left-hand side is not a valid identifier returns
\* "Error: Invalid variable name '...'" whatever its right-hand side is (a
\* right-hand side whose evaluation would fail is not evaluated: its error is
\* not reported and nothing is recorded), and leaves the environment and the
\* history unchanged.
C15_InvalidVariableName ==
    [][plugin' = "evaluator" /\ InvalidTarget(message') =>
          /\ ret' = <<"Error: ", "Invalid variable name '", Join(LeftSide(message')), "'">>
          /\ variables' = variables
          /\ history' = history
          /\ recorded' = recorded]_vars

\* "2 = z" was rejected for its name although z is not defined.
C15_Witness ==
    /\ plugin = "evaluator"
    /\ message = <<"2", " ", "=", " ", "z">>
    /\ ~SafeEval(RightSide(message), variables).ok
    /\ variables # <<>>
    /\ ret = <<"Error: ", "Invalid variable name '", "2", "'">>


\* ------------------------------------------------------------------
\* C16: a successful assignment "name = expr" stores the value of expr as a
\* float under name and returns "Set name = v" where v is that stored float:
\* "x = 5" returns "Set x = 5.0" and leaves the environment mapping x to 5.0.
C16_SetShowsStoredFloat ==
    [][/\ plugin' = "evaluator"
       /\ AssignmentShape(message')
       /\ Head(ret') = "Set "
       => /\ Bound(variables', Join(LeftSide(message')))
          /\ Flat(ret') = "Set " \o Join(LeftSide(message')) \o " = "
                          \o FloatStr(BoundValue(variables', Join(LeftSide(message'))))
          /\ Strip(message') = <<"x", " ", "=", " ", "5">> =>
                /\ Flat(ret') = "Set x = 5.0"
                /\ BoundValue(variables', "x") = <<5, 1>>]_vars


\* ------------------------------------------------------------------
\* C17: division by zero in the extended evaluator.

\* The message is "a / 0" (spaces optional, 0 or 0.0) where a is a number or
\* a defined variable.
DividesByZero(msg, vs) ==
    LET e == Strip(msg)
    IN  \E i \in 2..(Len(e) - 1) :
           /\ e[i] = "/"
           /\ Strip(SubSeq(e, i + 1, Len(e))) \in {<<"0">>, <<"0", ".", "0">>}
           /\ LET a == Strip(SubSeq(e, 1, i - 1))
              IN  \/ IsNumberOperand(a)
                  \/ IsNameOperand(a) /\ Bound(vs, Join(a))

\* C17: evaluating a division whose divisor is zero is not an error in the
\* extended evaluator: the call returns "Result: inf".
C17_DivisionByZeroIsInfinity ==
    [][plugin' = "evaluator" /\ DividesByZero(message', variables) =>
          Flat(ret') = "Result: inf"]_vars


\* ------------------------------------------------------------------
\* C18 and C19: the cursor of the basic calculator during one evaluation.

\* The last call evaluated an expression.
BasicEvaluated == BasicCalled /\ trail # <<>>

\* The places in trail where the factor rule was entered.
FactorCalls == {i \in 1..Len(trail) : trail[i].ev = "enter" /\ trail[i].rule = "factor"}

\* The places in trail where an iteration of a while loop of the expression
\* or the term rule began.
LoopIterations == {i \in 1..Len(trail) : trail[i].ev = "loop"}

\* The messages of the ValueErrors the parse raises: those of the rules and
\* that of float() for a literal without a digit.
ParseErrors ==
    {"Unexpected end of expression", "Missing closing parenthesis", "Expected number",
     "Unexpected characters at end of expression",
     "could not convert string to float: '.'"}

Assigned == SelectSeq(trail, LAMBDA t : t.ev \in {"set", "advance"})

\* C19: during one evaluation of the basic calculator the cursor starts at
\* 0, never decreases, and always satisfies 0 <= pos <= length of the cleaned
\* expression; on success it equals that length.
C19_CursorMonotone ==
    BasicEvaluated =>
        /\ trail[1] = Reset
        /\ Assigned[1].pos = 0
        /\ \A i \in 1..(Len(Assigned) - 1) : Assigned[i].pos <= Assigned[i + 1].pos
        /\ \A i \in 1..Len(trail) : 0 <= trail[i].pos /\ trail[i].pos <= Len(expr)
        /\ pos = Assigned[Len(Assigned)].pos
        /\ expr = CleanExpression(BasicExpression(message)).text
        /\ Head(ret) = "Result: " => pos = Len(expr)

\* An evaluation succeeded after the cursor went through every position of
\* an expression with a sign, a parenthesis and an operator.
C19_Witness ==
    /\ BasicEvaluated
    /\ Head(ret) = "Result: "
    /\ Len(expr) >= 5
    /\ pos = Len(expr)
    /\ Len(Assigned) = Len(expr) + 1
    /\ \E i \in 1..Len(expr) : expr[i] = "("
    /\ \E i \in 1..Len(expr) : expr[i] = "-"


\* ------------------------------------------------------------------
\* C20: the number tokens of the basic calculator.

\* digit+ ('.' digit+)?
WellFormedNumber(s) ==
    /\ s # <<>>
    /\ \A i \in 1..Len(s) : IsDigit(s[i]) \/ s[i] = "."
    /\ Cardinality({i \in 1..Len(s) : s[i] = "."}) <= 1
    /\ IsDigit(s[1]) /\ IsDigit(s[Len(s)])

\* C20: a number token is one or more digits optionally followed by '.' and
\* one or more digits: an expression that is one literal of digits and '.'
\* is evaluated only if it has that shape (".5", "5." and "." are not), and
\* an expression whose first factor position holds no digit and no
\* sub-expression fails with "Expected number".
C20_NumberShape ==
    BasicEvaluated =>
        /\ (\A i \in 1..Len(expr) : IsDigit(expr[i]) \/ expr[i] = ".")
              => (Head(ret) = "Result: " <=> WellFormedNumber(expr))
        /\ (~IsDigit(expr[1]) /\ expr[1] \notin {"(", "-", "+"})
              => Flat(ret) = "Calculator Error: Expected number"


\* ------------------------------------------------------------------
\* C21: the function names of the scientific calculator are matched
\* longest first.

\* The names that hold sin, cos or tan.
LongNames == {"asin", "acos", "atan", "sinh", "cosh", "tanh"}

\* The message, without its whitespace, is "name(argument)" with a name of
\* names and an argument without a parenthesis.
CallOfOne(msg, names) ==
    LET e == RemoveWhitespace(msg)
        at == Find(e, "(")
    IN  /\ at > 1 /\ at + 1 < Len(e)
        /\ e[Len(e)] = ")"
        /\ Join(SubSeq(e, 1, at - 1)) \in names
        /\ \A i \in (at + 1)..(Len(e) - 1) : e[i] \notin {"(", ")"}

CalledName(msg) ==
    LET e == RemoveWhitespace(msg) IN Join(SubSeq(e, 1, Find(e, "(") - 1))

CalledArgument(msg) ==
    LET e == RemoveWhitespace(msg) IN SubSeq(e, Find(e, "(") + 1, Len(e) - 1)

\* What the call of name on the value of the argument gives, as the
\* calculator reports it.
AppliedAs(name, arg_expr) ==
    LET a == EvaluateScientificExpression(arg_expr)
        r == ApplyFunction(name, a.val)
    IN  IF ~a.ok
        THEN <<"Scientific Calculator Error: ", "Cannot evaluate expression: " \o a.err>>
        ELSE IF ~r.ok
        THEN <<"Scientific Calculator Error: ",
               "Cannot evaluate expression: Error in " \o name \o "(" \o PyStr(a.val)
               \o "): " \o r.err>>
        ELSE <<"Result: ", FormatResult(r.val).val>>

\* C21: a call of asin, acos, atan, sinh, cosh or tanh on an argument
\* without parentheses is consumed by that function: the call returns what
\* that function gives for the argument and is never rewritten as a letter
\* followed by a call of sin, cos or tan, or as one of these followed by h.
C21_LongestFirst ==
    plugin = "scientific" /\ ret # <<>> /\ CallOfOne(message, LongNames) =>
        ret = AppliedAs(CalledName(message), CalledArgument(message))

\* asin(1) was answered with the arc sine of 1, which differs from sin(1).
C21_Witness ==
    /\ plugin = "scientific"
    /\ message = <<"a", "s", "i", "n", "(", "1", ")">>
    /\ ret = <<"Result: ", "1.570796327">>
    /\ AppliedAs("sin", <<"1">>) = <<"Result: ", "0.8414709848">>


\* ------------------------------------------------------------------
\* C22: what the scientific calculator reports when a function call fails.

\* The names of the table that reach _process_functions as they were
\* written (see C23 for the others).
IntactNames ==
    {"sin", "cos", "tan", "asin", "acos", "atan", "sinh", "cosh", "tanh", "log", "ln",
     "sqrt", "abs", "floor", "factorial", "radians"}

ScientificCalled == plugin = "scientific" /\ ret # <<>>

\* The argument of the call fails to evaluate.
ArgumentFails(msg) == ~EvaluateScientificExpression(CalledArgument(msg)).ok

\* C22 (as the code has it): when the function itself fails on the value of
\* its argument, the message names the function and that value ("Error in
\* name(value): ..."); when the evaluation of the argument expression fails,
\* the message is that of the argument's failure under one more "Cannot
\* evaluate expression: " and does not name the function.
C22_FailurePropagation ==
    ScientificCalled /\ CallOfOne(message, IntactNames) =>
        LET name == CalledName(message)
            a == EvaluateScientificExpression(CalledArgument(message))
            cast == name = "factorial" /\ a.ok /\ ~IsRepr(a.val) /\ IntOfFloat(a.val.v).ok
            v == IF cast THEN IntOfFloat(a.val.v).val ELSE a.val
            r == ApplyFunction(name, v)
        IN  /\ ~a.ok =>
                ret = <<"Scientific Calculator Error: ",
                        "Cannot evaluate expression: " \o a.err>>
            /\ a.ok /\ ~r.ok =>
                ret = <<"Scientific Calculator Error: ",
                        "Cannot evaluate expression: Error in " \o name \o "("
                        \o PyStr(v) \o "): " \o r.err>>

\* The messages of a failing argument that name no function.
Nameless ==
    {"Cannot evaluate expression: Cannot evaluate expression: division by zero",
     "Cannot evaluate expression: Cannot evaluate expression: name 'x' is not defined"}

\* C22 (as stated): whenever the evaluation of a function's argument
\* expression fails, the error message includes the name of the function
\* being applied, so it is none of the messages that name no function.
C22_NameIncluded ==
    ScientificCalled /\ CallOfOne(message, IntactNames) /\ ArgumentFails(message) =>
        /\ Head(ret) = "Scientific Calculator Error: "
        /\ ret[2] \notin Nameless

\* sin(1/0) was answered with the failure of 1/0.
C22_Witness ==
    /\ ScientificCalled
    /\ message = <<"s", "i", "n", "(", "1", "/", "0", ")">>
    /\ ArgumentFails(message)
    /\ ret[2] = "Cannot evaluate expression: Cannot evaluate expression: division by zero"


\* ------------------------------------------------------------------
\* C23: every function of the function table (sin, cos, tan, asin, acos,
\* atan, sinh, cosh, tanh, log, ln, log2, sqrt, abs, ceil, floor, factorial,
\* degrees, radians, exp) called on a single in-domain numeric literal is
\* recognized and applied, and the call returns a "Result:" string: so does
\* the call on the literal 1, which is in the domain of each of them.
C23_EveryFunctionApplied ==
    /\ ScientificCalled
    /\ CallOfOne(message, {Join(FunctionTable[i]) : i \in 1..Len(FunctionTable)})
    /\ CalledArgument(message) = <<"1">>
    => Head(ret) = "Result: "

(***************************************************************************)
(* C24.  MyFirstPlugin counts its visits.                                  *)
(***************************************************************************)
\* The calls of one kind among the calls made on the memory.
AccessesOf(acc, op) == SelectSeq(acc, LAMBDA a : a.op = op)

\* C24: each execution of MyFirstPlugin reads visit_count exactly once, with
\* default 0, stores the value read plus one exactly once, and returns a string
\* holding "[Visit #n]", n the stored value, and the incoming message; the
\* k-th of k executions on one memory reports Visit #k.
C24_VisitCount ==
    [][plugin = "first" =>
         LET counter == IF "visit_count" \in DOMAIN memory
                        THEN memory["visit_count"] ELSE 0
         IN  /\ AccessesOf(accesses', "recall") = <<Recalled("visit_count", 0)>>
             /\ AccessesOf(accesses', "remember")
                    = <<Remembered("visit_count", counter + 1)>>
             /\ Len(accesses') = 2
             /\ memory'["visit_count"] = counter + 1
             /\ ret' = <<"[Visit #", NatStr(memory'["visit_count"]),
                         "] Processed: ", Join(message')>>
             /\ memory'["visit_count"] = calls']_vars

\* The third execution on one memory reports Visit #3.
C24_Witness ==
    /\ plugin = "first"
    /\ calls = 3
    /\ memory = [k \in {"visit_count"} |-> 3]
    /\ Flat(ret) = "[Visit #3] Processed: Test message"

(***************************************************************************)
(* C30.  The turns the conversation tracker keeps.                         *)
(***************************************************************************)
\* The conversation_history stored in the memory.
StoredTurns == IF "conversation_history" \in DOMAIN memory
               THEN memory["conversation_history"] ELSE <<>>

\* C30: after any sequence of INPUT-stage and OUTPUT-stage executions of
\* ConversationTrackerPlugin on one memory, the stored conversation_history
\* holds at most 20 turns.
C30_AtMostTwentyTurns ==
    plugin = "tracker" => Len(StoredTurns) <= 20

(***************************************************************************)
(* C25.  The messages routed to the assignment handler.                    *)
(***************************************************************************)
\* An "=" of e that is not part of "==", "!=", ">=" or "<=".
BareEquals(e) ==
    \E i \in 1..Len(e) :
        /\ e[i] = "="
        /\ (i < Len(e) => e[i + 1] # "=")
        /\ (i > 1 => e[i - 1] \notin {"=", "!", ">", "<"})

\* The answers of _handle_assignment.
AnsweredAsAssignment(r) ==
    \/ Head(r) = "Set "
    \/ Head(r) = "Assignment Error: "
    \/ (Head(r) = "Error: " /\ r[2] = "Invalid variable name '")

\* C25: every message that holds a bare "=" (one that is not part of "==",
\* "!=", ">=" or "<=") and does not start with "?" is handled as an
\* assignment, also when one of these comparison operators occurs elsewhere
\* in it, as in "y = x >= 3".
C25_BareEqualsAssigns ==
    plugin = "evaluator" /\ ret # <<>> /\ Strip(message) # <<>>
        /\ Head(Strip(message)) # "?" /\ BareEquals(Strip(message))
    => AnsweredAsAssignment(ret)

(***************************************************************************)
(* C26.  What the help commands leave alone.                               *)
(***************************************************************************)
\* The message is a help command: its text starts with "?".
HelpCommand(msg) == Strip(msg) # <<>> /\ Head(Strip(msg)) = "?"

\* The command of a help command, in lower case.
CommandOf(msg) == Join([i \in 1..(Len(Strip(msg)) - 1) |-> LowerChar(Strip(msg)[i + 1])])

\* C26: ?vars, ?funcs, ?history and every unrecognized "?" command leave the
\* environment and the history unchanged and record no history entry; ?clear
\* empties the environment and the history.  (The table of built-in
\* functions is assigned in __init__ only.)
C26_HelpFrame ==
    [][plugin' = "evaluator" /\ HelpCommand(message') =>
          IF CommandOf(message') = "clear"
          THEN /\ variables' = <<>>
               /\ history' = <<>>
               /\ recorded' = recorded
          ELSE /\ variables' = variables
               /\ history' = history
               /\ recorded' = recorded]_vars

\* ?clear was the last call, after an entry had been recorded.
C26_Witness ==
    /\ plugin = "evaluator"
    /\ CommandOf(message) = "clear"
    /\ HelpCommand(message)
    /\ ret = <<"Cleared variables and history">>
    /\ recorded # <<>>
    /\ cleared = Len(recorded)
    /\ variables = <<>>
    /\ history = <<>>

(***************************************************************************)
(* C27.  A basic-calculator call does not depend on the calls before it.   *)
(***************************************************************************)
\* What a new instance returns for msg: the parser starts at cursor 0 on the
\* cleaned text.
FreshAnswer(msg) ==
    LET c == CleanExpression(BasicExpression(msg))
        r == EvaluateExpression(c.text)
    IN  IF ~c.ok THEN <<"Calculator Error: ", "Invalid characters in expression">>
        ELSE IF r.ok THEN <<"Result: ", FloatStr(r.val)>>
        ELSE <<"Calculator Error: ", r.err>>

\* C27: the string a basic-calculator call returns depends on its own message
\* only: whatever calls came before on the instance, failed ones that stopped
\* in the middle of a text included, it is the string a new instance returns,
\* and a call that evaluates starts at cursor 0 on its own text.
C27_DependsOnInputOnly ==
    [][plugin' = "basic" =>
          /\ ret' = FreshAnswer(message')
          /\ CleanExpression(BasicExpression(message')).ok =>
                /\ expr' = CleanExpression(BasicExpression(message')).text
                /\ trail' # <<>> /\ Head(trail') = Reset]_vars

\* "a" was answered as a new instance answers it, by an instance whose call
\* before had failed at the end of "2*", where its cursor still stands.
C27_Witness ==
    /\ BasicCalled
    /\ message = <<"a">>
    /\ ret = FreshAnswer(<<"a">>)
    /\ expr = <<"2", "*">>
    /\ pos = 2
    /\ ~EvaluateExpression(expr).ok

(***************************************************************************)
(* C28.  The calls that add a history entry.                               *)
(***************************************************************************)
\* The message reaches the evaluation of an expression: it is not empty,
\* does not start with "?", is not routed to the assignment handler and
\* does not start with "def ".
ReachesEvaluation(msg) ==
    LET e == Strip(msg)
    IN  /\ e # <<>>
        /\ Head(e) # "?"
        /\ ~AssignmentShape(msg)
        /\ ~(Len(e) >= 4 /\ SubSeq(e, 1, 4) = <<"d", "e", "f", " ">>)

\* The entries added by the step to the next state.
Added == SubSeq(recorded', Len(recorded) + 1, Len(recorded'))

\* C28: every call that reaches the evaluation of an expression appends
\* exactly one history entry that pairs the text with the result or with
\* the error string, whether it succeeds or fails; a successful assignment
\* appends exactly one entry; an empty message, a help command, a "def "
\* message and an assignment that is rejected or fails append none.
C28_OneEntryPerEvaluation ==
    [][plugin' = "evaluator" =>
          /\ Len(recorded') >= Len(recorded)
          /\ SubSeq(recorded', 1, Len(recorded)) = recorded
          /\ IF ReachesEvaluation(message')
             THEN /\ Head(ret') \in {"Result: ", "Evaluation Error: "}
                  /\ Added = <<[expr |-> Join(Strip(message')),
                                result |-> IF Head(ret') = "Result: "
                                           THEN Flat(Tail(ret')) ELSE Flat(ret')]>>
                  /\ Len(history) < HistoryLimit => history' = Append(history, Added[1])
             ELSE IF Head(ret') = "Set "
             THEN /\ AssignmentShape(message')
                  /\ Len(Added) = 1
                  /\ Added[1].expr = Join(Strip(message'))
                  /\ Len(history) < HistoryLimit => history' = Append(history, Added[1])
             ELSE /\ Added = <<>>
                  /\ ~(HelpCommand(message') /\ CommandOf(message') = "clear")
                        => history' = history]_vars

\* "10 / 0" failed after an entry had been recorded, and was recorded with
\* its error string.
C28_Witness ==
    /\ plugin = "evaluator"
    /\ message = <<"1", "0", " ", "/", " ", "0">>
    /\ Head(ret) = "Evaluation Error: "
    /\ Len(recorded) >= 2
    /\ Len(history) >= 2
    /\ history[Len(history)] = [expr |-> "10 / 0", result |-> Flat(ret)]

(***************************************************************************)
(* C29.  An assignment that fails changes nothing.                         *)
(***************************************************************************)
\* The values float() converts.
Convertible(x) == x.t \in {"int", "float", "bool", "repr"}

\* The variable of name in vs, as a set of at most one value.
StoredAs(vs, name) == {vs[i].v : i \in {j \in 1..Len(vs) : vs[j].k = name}}

\* C29: an assignment to a valid identifier whose right-hand side fails to
\* evaluate, or has a value float() does not convert, returns a string that
\* starts with "Assignment Error:" and leaves the environment and the history
\* as they were; every other assignment to a valid identifier stores the
\* number float() makes of the value, so that the environment holds floats
\* only.
C29_FailedAssignment ==
    [][plugin' = "evaluator" /\ AssignmentShape(message')
            /\ IsIdentifier(LeftSide(message')) =>
          LET r == SafeEval(RightSide(message'), variables)
          IN  IF ~r.ok \/ ~Convertible(r.val)
              THEN /\ Head(ret') = "Assignment Error: "
                   /\ variables' = variables
                   /\ history' = history
                   /\ recorded' = recorded
              ELSE /\ Head(ret') = "Set "
                   /\ StoredAs(variables', Join(LeftSide(message'))) = {r.val.v}
                   /\ \A i \in 1..Len(variables') :
                         variables'[i].k # Join(LeftSide(message'))
                            => variables'[i] \in {variables[j] : j \in 1..Len(variables)}]_vars

\* "f = abs" failed on an instance that holds variables and history: abs is
\* a function, which float() does not convert.
C29_Witness ==
    /\ plugin = "evaluator"
    /\ message = <<"f", " ", "=", " ", "a", "b", "s">>
    /\ Head(ret) = "Assignment Error: "
    /\ ret[2] = "float() argument must be a string or a real number, not 'builtin_function_or_method'"
    /\ variables # <<>>
    /\ history # <<>>
    /\ StoredAs(variables, "f") = {}

====
